---- MODULE Spec2Model ----
(***************************************************************************)
(* Verification model of the bittorrent-infrastructure-project sources:    *)
(*   - the umio UDP dispatcher (contrib/umio/src/dispatcher.rs),           *)
(*   - the metainfo builder (packages/metainfo/src/builder/mod.rs),        *)
(*   - the DHT response / announce_peer codecs (packages/dht/src/message). *)
(* Each component has its own specification over a shared variable list;   *)
(* a specification leaves the variables of the other components unchanged. *)
(***************************************************************************)
EXTENDS Integers, Sequences, FiniteSets, TLC

VARIABLES
    \* ---- DispatchHandler (dispatcher.rs:32-38) ----
    out_queue,      \* VecDeque<(Buffer, SocketAddr)>: Seq of [buf, dg]
    buffer_pool,    \* BufferPool free list (a Vec used as a stack): Seq of buffer ids
    current_set,    \* EventSet the socket is registered with
    borrowed,       \* buffers owned by the running `ready` handler / its callback
    allocated,      \* number of buffers the pool has created so far (ids 1..allocated)
    pc,             \* position of the handler: "idle" | "incoming"
    panicked,       \* TRUE once an unwrap() has panicked the event-loop thread
    wire,           \* history: datagram numbers handed to send_to, in order
    enqueued,       \* history: number of datagrams pushed on out_queue so far
    last,           \* history: the event handled by the last step
    \* ---- pure functions (metainfo piece length, DHT parsers) ----
    arg,            \* the input of the call
    res,            \* the value returned ("pending" before the call)
    \* ---- MetainfoBuilder / InfoBuilder (builder/mod.rs:55-58, 295-300) ----
    root,           \* root dictionary of the MetainfoBuilder
    info,           \* info dictionary of the InfoBuilder
    calls,          \* history: most recent argument given to each setter
    \* ---- TrackerServer / TrackerClient (test_announce_stop.rs:16-21) ----
    swarm,          \* MockTrackerHandler: peers registered for each info hash
    requests,       \* announce requests in flight to the server
    responses,      \* announce responses in flight to the clients
    stream,         \* handshaker stream of each client: Seq of HandshakerMessage
    issued,         \* history: the requests the clients made (index = token)
    handled         \* history: the requests the server handled, in order

dispVars == <<out_queue, buffer_pool, current_set, borrowed, allocated, pc,
              panicked, wire, enqueued, last>>
fnVars   == <<arg, res>>
bldVars  == <<root, info, calls>>
trkVars  == <<swarm, requests, responses, stream, issued, handled>>
vars     == <<out_queue, buffer_pool, current_set, borrowed, allocated, pc,
              panicked, wire, enqueued, last, arg, res, root, info, calls,
              swarm, requests, responses, stream, issued, handled>>

(***************************************************************************)
(*                     UDP dispatcher (umio)                               *)
(***************************************************************************)

\* Bounds of the dispatcher model.
MaxBuffers   == 3   \* buffers the pool may create
MaxQueue     == 2   \* length of out_queue
MaxDatagrams == 3   \* datagrams enqueued over a run
MaxOutgoing  == 2   \* provider.outgoing calls made by one callback

UDP_SOCKET_TOKEN == 2
Tokens == {UDP_SOCKET_TOKEN, UDP_SOCKET_TOKEN + 1}

Readable == {"readable"}
Writable == {"writable"}
EventSets == SUBSET (Readable \cup Writable)

\* Outcomes of mio 0.5 UdpSocket::send_to: Ok(Some(n)), Ok(None), Err(e).
SendResults == {"ok", "wouldblock", "err"}
\* Outcomes of UdpSocket::recv_from: Ok(Some((n, addr))), Ok(None), Err(e).
RecvResults == {"datagram", "nothing", "err"}

NoEvent == [kind |-> "new", token |-> UDP_SOCKET_TOKEN, events |-> {},
            send |-> "none", recv |-> "none", sends |-> <<>>]

\* The part of the handler state the Provider borrows (buffer pool and
\* outbound queue), with the two history counters.
DispState == [pool |-> buffer_pool, queue |-> out_queue,
              allocated |-> allocated, enqueued |-> enqueued]

\* BufferPool::pop: the most recently pushed free buffer, or a new one.
BufferPoolPop(st) ==
    IF st.pool /= <<>>
    THEN [buf |-> st.pool[Len(st.pool)],
          st  |-> [st EXCEPT !.pool = SubSeq(st.pool, 1, Len(st.pool) - 1)]]
    ELSE [buf |-> st.allocated + 1,
          st  |-> [st EXCEPT !.allocated = st.allocated + 1]]

\* BufferPool::push: the buffer goes back on the free list.
BufferPoolPush(st, buf) == [st EXCEPT !.pool = Append(st.pool, buf)]

\* Provider::outgoing: take a buffer from the pool, let the handler fill it;
\* the handler either names a destination (the buffer is enqueued) or
\* declines (the buffer goes back to the pool).
ProviderOutgoing(st, send) ==
    LET p == BufferPoolPop(st) IN
    IF send
    THEN [p.st EXCEPT !.queue = Append(p.st.queue,
                                       [buf |-> p.buf, dg |-> p.st.enqueued + 1]),
                      !.enqueued = p.st.enqueued + 1]
    ELSE BufferPoolPush(p.st, p.buf)

\* A handler callback (incoming / notify / timeout): a finite sequence of
\* provider.outgoing calls; sends[i] tells whether call i enqueues.
RECURSIVE RunCallback(_, _)
RunCallback(st, sends) ==
    IF sends = <<>> THEN st
    ELSE RunCallback(ProviderOutgoing(st, Head(sends)), Tail(sends))

CallbackChoices == UNION {[1..n -> BOOLEAN] : n \in 0..MaxOutgoing}

WithinBounds(st) ==
    /\ st.allocated <= MaxBuffers
    /\ st.enqueued <= MaxDatagrams
    /\ Len(st.queue) <= MaxQueue

\* Mutant of handle_write: pops the back of the queue instead of the front.
handle_write_pop_back(st, sendRes) ==
    IF st.queue = <<>>
    THEN [st |-> st, sent |-> 0, panic |-> FALSE]
    ELSE LET head == st.queue[Len(st.queue)]
             popped == [st EXCEPT !.queue = SubSeq(st.queue, 1, Len(st.queue) - 1)]
         IN IF sendRes = "err"
            THEN [st |-> popped, sent |-> head.dg, panic |-> TRUE]
            ELSE [st |-> BufferPoolPush(popped, head.buf), sent |-> head.dg,
                  panic |-> FALSE]

\* Mutant of handle_write: the whole queue is flushed on one event.
handle_write_drain(st, sendRes) ==
    IF st.queue = <<>>
    THEN [st |-> st, sent |-> 0, panic |-> FALSE]
    ELSE LET head == Head(st.queue)
             popped == [st EXCEPT !.queue = <<>>]
         IN IF sendRes = "err"
            THEN [st |-> popped, sent |-> head.dg, panic |-> TRUE]
            ELSE [st |-> BufferPoolPush(popped, head.buf), sent |-> head.dg,
                  panic |-> FALSE]

\* Mutant of handle_write: a lone datagram is left in the queue.
handle_write_skip_last(st, sendRes) ==
    IF Len(st.queue) <= 1
    THEN [st |-> st, sent |-> 0, panic |-> FALSE]
    ELSE LET head == Head(st.queue)
             popped == [st EXCEPT !.queue = Tail(st.queue)]
         IN IF sendRes = "err"
            THEN [st |-> popped, sent |-> head.dg, panic |-> TRUE]
            ELSE [st |-> BufferPoolPush(popped, head.buf), sent |-> head.dg,
                  panic |-> FALSE]

\* DispatchHandler::handle_write. The result carries the new pool/queue, the
\* datagram handed to the socket (0: none) and whether unwrap() panicked.
handle_write(st, sendRes) ==
    IF st.queue = <<>>
    THEN [st |-> st, sent |-> 0, panic |-> FALSE]
    ELSE LET head == Head(st.queue)
             popped == [st EXCEPT !.queue = Tail(st.queue)]
         IN IF sendRes = "err"
            THEN \* send_to(..).unwrap() panics; the popped buffer is dropped
                 [st |-> popped, sent |-> head.dg, panic |-> TRUE]
            ELSE \* Ok(Some(_)) and Ok(None) alike: the buffer is pushed back
                 [st |-> BufferPoolPush(popped, head.buf), sent |-> head.dg,
                  panic |-> FALSE]

\* DispatchHandler::handle_read. The buffer is popped before recv_from; it is
\* returned to the caller only when a datagram arrived, otherwise it goes out
\* of scope (buf = 0: None).
handle_read(st, recvRes) ==
    LET p == BufferPoolPop(st) IN
    IF recvRes = "datagram"
    THEN [st |-> p.st, buf |-> p.buf]
    ELSE [st |-> p.st, buf |-> 0]

\* Mutant of Ready: the token of the event is not looked at.
Ready_any_token(token, events, sendRes, recvRes) ==
    /\ pc = "idle" /\ ~panicked
    /\ last' = [kind |-> "ready", token |-> token, events |-> events,
                send |-> sendRes, recv |-> recvRes, sends |-> <<>>]
    /\ UNCHANGED <<current_set>>
    /\ LET w == IF "writable" \in events
                THEN handle_write(DispState, sendRes)
                ELSE [st |-> DispState, sent |-> 0, panic |-> FALSE]
           r == IF "readable" \in events /\ ~w.panic
                THEN handle_read(w.st, recvRes)
                ELSE [st |-> w.st, buf |-> 0]
       IN /\ WithinBounds(r.st)
          /\ out_queue' = r.st.queue
          /\ buffer_pool' = r.st.pool
          /\ allocated' = r.st.allocated
          /\ enqueued' = r.st.enqueued
          /\ wire' = IF w.sent /= 0 THEN Append(wire, w.sent) ELSE wire
          /\ panicked' = w.panic
          /\ borrowed' = IF r.buf /= 0 THEN {r.buf} ELSE {}
          /\ pc' = IF r.buf /= 0 THEN "incoming" ELSE "idle"

\* Handler::ready up to the point where the incoming callback is entered.
Ready(token, events, sendRes, recvRes) ==
    /\ pc = "idle" /\ ~panicked
    /\ last' = [kind |-> "ready", token |-> token, events |-> events,
                send |-> sendRes, recv |-> recvRes, sends |-> <<>>]
    /\ UNCHANGED <<current_set>>
    /\ IF token /= UDP_SOCKET_TOKEN
       THEN UNCHANGED <<out_queue, buffer_pool, borrowed, allocated, pc,
                        panicked, wire, enqueued>>
       ELSE LET w == IF "writable" \in events
                     THEN handle_write(DispState, sendRes)
                     ELSE [st |-> DispState, sent |-> 0, panic |-> FALSE]
                doRead == "readable" \in events /\ ~w.panic
                r == IF doRead THEN handle_read(w.st, recvRes)
                     ELSE [st |-> w.st, buf |-> 0]
            IN /\ WithinBounds(r.st)
               /\ out_queue' = r.st.queue
               /\ buffer_pool' = r.st.pool
               /\ allocated' = r.st.allocated
               /\ enqueued' = r.st.enqueued
               /\ wire' = IF w.sent /= 0 THEN Append(wire, w.sent) ELSE wire
               /\ panicked' = w.panic
               /\ borrowed' = IF r.buf /= 0 THEN {r.buf} ELSE {}
               /\ pc' = IF r.buf /= 0 THEN "incoming" ELSE "idle"

\* The events the event loop may deliver for a token: for the UDP socket,
\* a non-empty subset of the registered interest.
Deliverable(token) ==
    IF token = UDP_SOCKET_TOKEN THEN (SUBSET current_set) \ {{}}
    ELSE EventSets \ {{}}

ReadyEvent ==
    \E token \in Tokens : \E events \in Deliverable(token) :
        \E sendRes \in (IF token = UDP_SOCKET_TOKEN /\ "writable" \in events
                           /\ out_queue /= <<>>
                        THEN SendResults ELSE {"none"}) :
        \E recvRes \in (IF token = UDP_SOCKET_TOKEN /\ "readable" \in events
                           /\ sendRes /= "err"
                        THEN RecvResults ELSE {"none"}) :
            Ready(token, events, sendRes, recvRes)

\* Handler::ready, second half: dispatch.incoming(provider, ..) and then
\* buffer_pool.push(buffer).
Incoming(sends) ==
    /\ pc = "incoming" /\ ~panicked
    /\ LET st == RunCallback(DispState, sends)
           buf == CHOOSE b \in borrowed : TRUE
           fin == BufferPoolPush(st, buf)
       IN /\ WithinBounds(fin)
          /\ out_queue' = fin.queue
          /\ buffer_pool' = fin.pool
          /\ allocated' = fin.allocated
          /\ enqueued' = fin.enqueued
    /\ borrowed' = {}
    /\ pc' = "idle"
    /\ last' = [last EXCEPT !.kind = "incoming", !.sends = sends]
    /\ UNCHANGED <<current_set, panicked, wire>>

IncomingCallback == \E sends \in CallbackChoices : Incoming(sends)

\* Handler::notify and Handler::timeout: the callback alone.
Callback(kind, sends) ==
    /\ pc = "idle" /\ ~panicked
    /\ LET st == RunCallback(DispState, sends)
       IN /\ WithinBounds(st)
          /\ out_queue' = st.queue
          /\ buffer_pool' = st.pool
          /\ allocated' = st.allocated
          /\ enqueued' = st.enqueued
    /\ last' = [NoEvent EXCEPT !.kind = kind, !.sends = sends]
    /\ UNCHANGED <<current_set, borrowed, pc, panicked, wire>>

Notify == \E sends \in CallbackChoices : Callback("notify", sends)

Timeout == \E sends \in CallbackChoices : Callback("timeout", sends)

\* Mutant of TickSet: the writable interest is never registered.
TickSetReadableOnly(queue) == Readable

\* The event set tick registers.
TickSet(queue) ==
    IF queue = <<>> THEN Readable ELSE Readable \cup Writable

\* Handler::tick.
Tick ==
    /\ pc = "idle" /\ ~panicked
    /\ current_set' = TickSet(out_queue)
    /\ last' = [NoEvent EXCEPT !.kind = "tick"]
    /\ UNCHANGED <<out_queue, buffer_pool, borrowed, allocated, pc, panicked,
                   wire, enqueued>>

\* DispatchHandler::new.
DispInit ==
    /\ out_queue = <<>>
    /\ buffer_pool = <<>>
    /\ current_set = Readable
    /\ borrowed = {}
    /\ allocated = 0
    /\ pc = "idle"
    /\ panicked = FALSE
    /\ wire = <<>>
    /\ enqueued = 0
    /\ last = NoEvent

FnIdle == arg = "none" /\ res = "none"
BldIdle == root = "none" /\ info = "none" /\ calls = "none"
TrkIdle ==
    /\ swarm = "none" /\ requests = "none" /\ responses = "none"
    /\ stream = "none" /\ issued = "none" /\ handled = "none"

Init == DispInit /\ FnIdle /\ BldIdle /\ TrkIdle

Next ==
    \/ ReadyEvent /\ UNCHANGED <<fnVars, bldVars, trkVars>>
    \/ IncomingCallback /\ UNCHANGED <<fnVars, bldVars, trkVars>>
    \/ Notify /\ UNCHANGED <<fnVars, bldVars, trkVars>>
    \/ Timeout /\ UNCHANGED <<fnVars, bldVars, trkVars>>
    \/ Tick /\ UNCHANGED <<fnVars, bldVars, trkVars>>

Spec == Init /\ [][Next]_vars

\* A write-ready event for the UDP socket while datagrams are queued.
WriteReady ==
    /\ out_queue /= <<>>
    /\ \E events \in Deliverable(UDP_SOCKET_TOKEN) :
          /\ "writable" \in events
          /\ \E sendRes \in SendResults :
                \E recvRes \in (IF "readable" \in events /\ sendRes /= "err"
                                 THEN RecvResults ELSE {"none"}) :
                    Ready(UDP_SOCKET_TOKEN, events, sendRes, recvRes)
    /\ UNCHANGED <<fnVars, bldVars, trkVars>>

\* The event loop keeps running: it calls tick after every round of events,
\* a callback that was entered returns, and the socket keeps becoming
\* writable while it is registered as such and datagrams are queued.
SpecLive ==
    /\ Init /\ [][Next]_vars
    /\ SF_vars(Tick /\ UNCHANGED <<fnVars, bldVars, trkVars>>)
    /\ WF_vars(IncomingCallback /\ UNCHANGED <<fnVars, bldVars, trkVars>>)
    /\ SF_vars(WriteReady)

DispIdle == DispInit

(***************************************************************************)
(*        Metainfo builder: piece length (builder/mod.rs:504-543)          *)
(***************************************************************************)

ALL_OPT_MAX_PIECE_LENGTH   == 16 * 1024 * 1024
BALANCED_MAX_PIECES_SIZE   == 40000
BALANCED_MIN_PIECE_LENGTH  == 512 * 1024
FILE_SIZE_MAX_PIECES_SIZE  == 20000
FILE_SIZE_MIN_PIECE_LENGTH == 1024 * 1024
TRANSFER_MAX_PIECES_SIZE   == 60000
TRANSFER_MIN_PIECE_LENGTH  == 1024
SHA_HASH_LEN               == 20

\* total_file_size is a u64. The model checker's integers are 32 bits wide,
\* so a size is carried as two limbs, [hi, lo] standing for hi * LIMB + lo
\* with 0 <= lo < LIMB; piece lengths and piece counts fit one integer.
LIMB == 1024 * 1024
U64(hi, lo) == [hi |-> hi + (lo \div LIMB), lo |-> lo % LIMB]

\* size / n and size % n for a divisor n below LIMB.
DivMod(size, n) ==
    LET low == size.hi * (LIMB % n) + size.lo
    IN [q |-> size.hi * (LIMB \div n) + (low \div n), r |-> low % n]

\* ceil(size / p) for p a power of two (below or above LIMB), 0 for p = 0
\* guarded by the caller.
CeilDivPow2(size, p) ==
    IF p <= LIMB
    THEN size.hi * (LIMB \div p) + (size.lo \div p)
            + (IF size.lo % p /= 0 THEN 1 ELSE 0)
    ELSE LET m == p \div LIMB
         IN (size.hi \div m) + (IF size.hi % m /= 0 \/ size.lo /= 0 THEN 1 ELSE 0)

\* u64::next_power_of_two: the smallest power of two >= n (1 for n = 0).
RECURSIVE PowerOfTwoFrom(_, _)
PowerOfTwoFrom(p, n) == IF p >= n THEN p ELSE PowerOfTwoFrom(2 * p, n)
next_power_of_two(n) == PowerOfTwoFrom(1, n)

\* Lines 518-530: num_pieces = max_pieces_size / SHA_HASH_LEN (an integer for
\* the three budgets), then (total_file_size as f64) / num_pieces + 0.5 cast
\* to u64, i.e. the quotient rounded half up. The f64 value agrees with the
\* exact one for every size of the model (all far below 2^53).
RoundedPieceLength(total_file_size, max_pieces_size) ==
    LET num_pieces == max_pieces_size \div SHA_HASH_LEN
        d == DivMod(total_file_size, num_pieces)
    IN d.q + (IF 2 * d.r >= num_pieces THEN 1 ELSE 0)

\* calculate_piece_length without the match of lines 535-542.
calculate_piece_length_unclamped(total_file_size, max_pieces_size, min_piece_length) ==
    next_power_of_two(RoundedPieceLength(total_file_size, max_pieces_size))

\* calculate_piece_length.
calculate_piece_length(total_file_size, max_pieces_size, min_piece_length) ==
    LET piece_length == RoundedPieceLength(total_file_size, max_pieces_size)
        pot_piece_length == next_power_of_two(piece_length)
    IN IF pot_piece_length > min_piece_length
          /\ pot_piece_length < ALL_OPT_MAX_PIECE_LENGTH
       THEN pot_piece_length
       ELSE IF ~(pot_piece_length > min_piece_length)
            THEN min_piece_length
            ELSE ALL_OPT_MAX_PIECE_LENGTH

PieceLengthKinds == {"OptBalanced", "OptFileSize", "OptTransfer", "Custom"}

\* determine_piece_length with the cap applied to Custom lengths too.
determine_piece_length_custom_capped(total_file_size, pl) ==
    CASE pl.kind = "Custom" ->
            IF pl.len < ALL_OPT_MAX_PIECE_LENGTH THEN pl.len
            ELSE ALL_OPT_MAX_PIECE_LENGTH
      [] pl.kind = "OptBalanced" ->
            calculate_piece_length(total_file_size, BALANCED_MAX_PIECES_SIZE,
                                   BALANCED_MIN_PIECE_LENGTH)
      [] pl.kind = "OptFileSize" ->
            calculate_piece_length(total_file_size, FILE_SIZE_MAX_PIECES_SIZE,
                                   FILE_SIZE_MIN_PIECE_LENGTH)
      [] pl.kind = "OptTransfer" ->
            calculate_piece_length(total_file_size, TRANSFER_MAX_PIECES_SIZE,
                                   TRANSFER_MIN_PIECE_LENGTH)

\* determine_piece_length; pl is [kind, len], len used by Custom only.
determine_piece_length(total_file_size, pl) ==
    CASE pl.kind = "Custom" -> pl.len
      [] pl.kind = "OptBalanced" ->
            calculate_piece_length(total_file_size, BALANCED_MAX_PIECES_SIZE,
                                   BALANCED_MIN_PIECE_LENGTH)
      [] pl.kind = "OptFileSize" ->
            calculate_piece_length(total_file_size, FILE_SIZE_MAX_PIECES_SIZE,
                                   FILE_SIZE_MIN_PIECE_LENGTH)
      [] pl.kind = "OptTransfer" ->
            calculate_piece_length(total_file_size, TRANSFER_MAX_PIECES_SIZE,
                                   TRANSFER_MIN_PIECE_LENGTH)

MaxPiecesSize(kind) ==
    CASE kind = "OptBalanced" -> BALANCED_MAX_PIECES_SIZE
      [] kind = "OptFileSize" -> FILE_SIZE_MAX_PIECES_SIZE
      [] kind = "OptTransfer" -> TRANSFER_MAX_PIECES_SIZE

MinPieceLength(kind) ==
    CASE kind = "OptBalanced" -> BALANCED_MIN_PIECE_LENGTH
      [] kind = "OptFileSize" -> FILE_SIZE_MIN_PIECE_LENGTH
      [] kind = "OptTransfer" -> TRANSFER_MIN_PIECE_LENGTH

\* Bounds of the piece-length inputs: total file sizes h * 2^e + d around
\* every point where the rounded quotient crosses a power of two, for the
\* three hash budgets h, and the plain powers of two up to 2^MaxSizeExp.
MaxPieceExp == 25
MaxSizeExp  == 33
MaxDelta    == 1

HashBudgets == {MaxPiecesSize(k) \div SHA_HASH_LEN :
                    k \in PieceLengthKinds \ {"Custom"}}

\* The size h * 2^e + d as limbs.
RECURSIVE ShiftLeft(_, _)
ShiftLeft(size, e) ==
    IF e = 0 THEN size ELSE ShiftLeft(U64(2 * size.hi, 2 * size.lo), e - 1)
SizeOf(h, e, d) ==
    LET p == ShiftLeft(U64(0, h), e) IN U64(p.hi, p.lo + d)

FileSizes ==
    {U64(0, 0)} \cup {SizeOf(1, e, 0) : e \in 0..MaxSizeExp}
        \cup {s \in {SizeOf(h, e, d) : h \in HashBudgets, e \in 0..MaxPieceExp,
                                       d \in (0 - MaxDelta)..MaxDelta} : s.hi >= 0}

CustomLengths == {0, 1, 1000, ALL_OPT_MAX_PIECE_LENGTH + 1}

PieceLengths ==
    [kind : PieceLengthKinds \ {"Custom"}, len : {0}]
        \cup [kind : {"Custom"}, len : CustomLengths]

PieceInit ==
    /\ DispIdle /\ TrkIdle /\ BldIdle
    /\ arg \in [size : FileSizes, pl : PieceLengths]
    /\ res = [done |-> FALSE, len |-> 0]

\* build_with_accessor, line 386: the piece length for the total file size.
DeterminePieceLength ==
    /\ ~res.done
    /\ res' = [done |-> TRUE, len |-> determine_piece_length(arg.size, arg.pl)]
    /\ UNCHANGED <<arg, dispVars, bldVars, trkVars>>

PieceNext == DeterminePieceLength

SpecPiece == PieceInit /\ [][PieceNext]_vars

\* C7: for every Opt* strategy and total file size the hashes of the pieces
\* fit the strategy's maximum pieces size, ceil(size / piece_length) * 20 <=
\* max_pieces_size, unless the piece length was clamped to the 16 MiB cap.
C7_PiecesFitBudget ==
    (res.done /\ arg.pl.kind /= "Custom" /\ res.len /= ALL_OPT_MAX_PIECE_LENGTH) =>
        CeilDivPow2(arg.size, res.len) * SHA_HASH_LEN <= MaxPiecesSize(arg.pl.kind)

IsPowerOfTwo(n) == n >= 1 /\ next_power_of_two(n) = n

\* C24: for every Opt* strategy and every total file size, 0 included, the
\* piece length chosen is a power of two between the strategy's minimum
\* (512 KiB OptBalanced, 1 MiB OptFileSize, 1 KiB OptTransfer) and 16 MiB.
C24_PowerOfTwoInRange ==
    (res.done /\ arg.pl.kind /= "Custom") =>
        /\ IsPowerOfTwo(res.len)
        /\ res.len <= 16 * 1024 * 1024
        /\ arg.pl.kind = "OptBalanced" => res.len >= 512 * 1024
        /\ arg.pl.kind = "OptFileSize" => res.len >= 1024 * 1024
        /\ arg.pl.kind = "OptTransfer" => res.len >= 1024

\* C24 witness: an OptTransfer length strictly between the minimum and the
\* cap has been chosen.
C24_Witness ==
    /\ res.done /\ arg.pl.kind = "OptTransfer"
    /\ res.len > 1024 /\ res.len < 16 * 1024 * 1024

\* ceil(size / n) for a divisor n below LIMB.
CeilDiv(size, n) ==
    LET d == DivMod(size, n) IN d.q + (IF d.r > 0 THEN 1 ELSE 0)

Clamped(n, low, high) == IF n < low THEN low ELSE IF n > high THEN high ELSE n

\* C25: for every Opt* strategy and size s the piece length is
\* next_power_of_two(ceil(s / (budget / 20))) clamped to [minimum, 16 MiB]
\* (s / 2000 and 512 KiB for OptBalanced): the smallest power of two with
\* which the hashes fit the budget.
C25_MinimalPowerOfTwo ==
    (res.done /\ arg.pl.kind /= "Custom") =>
        res.len = Clamped(next_power_of_two(
                              CeilDiv(arg.size,
                                      MaxPiecesSize(arg.pl.kind) \div SHA_HASH_LEN)),
                          MinPieceLength(arg.pl.kind), ALL_OPT_MAX_PIECE_LENGTH)

\* C26: a Custom(n) piece length is returned as it is, for every n and
\* every total file size: not rounded, not raised to a minimum, not capped.
C26_CustomVerbatim ==
    (res.done /\ arg.pl.kind = "Custom") => res.len = arg.pl.len

\* C26 witness: a custom length above the 16 MiB cap came back unchanged.
C26_Witness ==
    /\ res.done /\ arg.pl.kind = "Custom"
    /\ arg.pl.len > ALL_OPT_MAX_PIECE_LENGTH /\ res.len = arg.pl.len

(***************************************************************************)
(*     Metainfo builder: the root and info dictionaries (mod.rs:55-342)    *)
(***************************************************************************)

\* Bencode values, all of one record shape.
BNone       == [t |-> "none",  i |-> 0, s |-> "", l |-> <<>>]
ben_int(n)  == [t |-> "int",   i |-> n, s |-> "", l |-> <<>>]
ben_bytes(x) == [t |-> "bytes", i |-> 0, s |-> x,  l |-> <<>>]
ben_list(x) == [t |-> "list",  i |-> 0, s |-> "", l |-> x]

\* Option<T>.
None    == [some |-> FALSE, v |-> BNone]
Some(x) == [some |-> TRUE, v |-> x]

\* A bencode dictionary is a function from the keys present to their values.
new_dict == <<>>

\* BDictAccess::insert: sets the key and returns the value it replaced.
dict_insert(d, key, value) ==
    [dict |-> [k \in DOMAIN d \cup {key} |-> IF k = key THEN value ELSE d[k]],
     old  |-> IF key \in DOMAIN d THEN Some(d[key]) ELSE None]

\* BDictAccess::remove: unsets the key and returns the value it held.
dict_remove(d, key) ==
    [dict |-> [k \in DOMAIN d \ {key} |-> d[k]],
     old  |-> IF key \in DOMAIN d THEN Some(d[key]) ELSE None]

dict_lookup(d, key) == IF key \in DOMAIN d THEN Some(d[key]) ELSE None

ANNOUNCE_URL_KEY  == "announce"
ANNOUNCE_LIST_KEY == "announce-list"
CREATION_DATE_KEY == "creation date"
COMMENT_KEY       == "comment"
CREATED_BY_KEY    == "created by"
PRIVATE_KEY       == "private"

\* The body shared by the root setters: insert the value, or remove the key.
set_or_remove(d, key, opt) ==
    IF opt.some THEN dict_insert(d, key, opt.v).dict
    ELSE dict_remove(d, key).dict

\* MetainfoBuilder::set_trackers (opt carries the list of tracker groups).
set_trackers(d, opt) ==
    set_or_remove(d, ANNOUNCE_LIST_KEY,
        IF opt.some
        THEN Some(ben_list([g \in DOMAIN opt.v.l |->
                 ben_list([u \in DOMAIN opt.v.l[g] |-> ben_bytes(opt.v.l[g][u])])]))
        ELSE None)

\* set_main_tracker that also drops the tracker list.
set_main_tracker_alone(d, opt) ==
    dict_remove(set_or_remove(d, ANNOUNCE_URL_KEY, opt), ANNOUNCE_LIST_KEY).dict

\* MetainfoBuilder::set_main_tracker.
set_main_tracker(d, opt) == set_or_remove(d, ANNOUNCE_URL_KEY, opt)

\* MetainfoBuilder::set_creation_date.
set_creation_date(d, opt) == set_or_remove(d, CREATION_DATE_KEY, opt)

\* MetainfoBuilder::set_comment.
set_comment(d, opt) == set_or_remove(d, COMMENT_KEY, opt)

\* MetainfoBuilder::set_created_by.
set_created_by(d, opt) == set_or_remove(d, CREATED_BY_KEY, opt)

\* InfoBuilder::set_private_flag. opt is None or Some(b), b a BOOLEAN.
\*   opt.map(i64::from)
\*      .and_then(|n| dict.insert(PRIVATE_KEY, ben_int!(n)))
\*      .or_else(|| dict.remove(PRIVATE_KEY))
\* and_then yields what insert returns (the value replaced, if any); or_else
\* runs remove whenever that is None.
set_private_flag(d, opt) ==
    LET ins == IF opt.some
               THEN dict_insert(d, PRIVATE_KEY, ben_int(IF opt.b THEN 1 ELSE 0))
               ELSE [dict |-> d, old |-> None]
    IN IF ins.old.some THEN ins.dict
       ELSE dict_remove(ins.dict, PRIVATE_KEY).dict

\* parse::parse_announce_url, parse_creation_date, parse_comment and
\* parse_created_by: the value under the key when it has the type t.
parse_value(d, key, t) ==
    LET found == dict_lookup(d, key)
    IN IF found.some /\ found.v.t = t THEN found ELSE None

\* parse::parse_announce_list mapped through parse::convert_announce_list:
\* the list of lists of byte strings as a list of lists of strings.
parse_announce_list(d) ==
    LET found == dict_lookup(d, ANNOUNCE_LIST_KEY)
    IN IF found.some /\ found.v.t = "list"
          /\ \A g \in DOMAIN found.v.l :
                /\ found.v.l[g].t = "list"
                /\ \A u \in DOMAIN found.v.l[g].l : found.v.l[g].l[u].t = "bytes"
       THEN Some(ben_list([g \in DOMAIN found.v.l |->
                    [u \in DOMAIN found.v.l[g].l |-> found.v.l[g].l[u].s]]))
       ELSE None

\* MetainfoBuilder::get_trackers .. get_created_by.
get_trackers(d)      == parse_announce_list(d)
get_main_tracker(d)  == parse_value(d, ANNOUNCE_URL_KEY, "bytes")
get_creation_date(d) == parse_value(d, CREATION_DATE_KEY, "int")
get_comment(d)       == parse_value(d, COMMENT_KEY, "bytes")
get_created_by(d)    == parse_value(d, CREATED_BY_KEY, "bytes")

OptBools == {[some |-> FALSE, b |-> FALSE], [some |-> TRUE, b |-> FALSE],
             [some |-> TRUE, b |-> TRUE]}
OptStrings(S) == {None} \cup {Some(ben_bytes(x)) : x \in S}
OptInts(S) == {None} \cup {Some(ben_int(n)) : n \in S}
OptTrackers ==
    {None, Some(ben_list(<<<<"udp://a">>>>)),
           Some(ben_list(<<<<"udp://a", "udp://b">>, <<"udp://c">>>>))}

NeverCalled == [called |-> FALSE, opt |-> None]
Called(opt) == [called |-> TRUE, opt |-> opt]

\* MetainfoBuilder::new.
BldInit ==
    /\ DispIdle /\ TrkIdle /\ FnIdle
    /\ root = new_dict
    /\ info = new_dict
    /\ calls = [trackers |-> NeverCalled, main_tracker |-> NeverCalled,
                creation_date |-> NeverCalled, comment |-> NeverCalled,
                created_by |-> NeverCalled,
                private |-> [called |-> FALSE, opt |-> [some |-> FALSE, b |-> FALSE]]]

SetTrackers ==
    \E opt \in OptTrackers :
        /\ root' = set_trackers(root, opt)
        /\ calls' = [calls EXCEPT !.trackers = Called(opt)]
        /\ UNCHANGED <<info, dispVars, fnVars, trkVars>>

SetMainTracker ==
    \E opt \in OptStrings({"udp://a", "udp://b"}) :
        /\ root' = set_main_tracker(root, opt)
        /\ calls' = [calls EXCEPT !.main_tracker = Called(opt)]
        /\ UNCHANGED <<info, dispVars, fnVars, trkVars>>

SetCreationDate ==
    \E opt \in OptInts({0, 1700000000}) :
        /\ root' = set_creation_date(root, opt)
        /\ calls' = [calls EXCEPT !.creation_date = Called(opt)]
        /\ UNCHANGED <<info, dispVars, fnVars, trkVars>>

SetComment ==
    \E opt \in OptStrings({"", "a comment"}) :
        /\ root' = set_comment(root, opt)
        /\ calls' = [calls EXCEPT !.comment = Called(opt)]
        /\ UNCHANGED <<info, dispVars, fnVars, trkVars>>

SetCreatedBy ==
    \E opt \in OptStrings({"me", "you"}) :
        /\ root' = set_created_by(root, opt)
        /\ calls' = [calls EXCEPT !.created_by = Called(opt)]
        /\ UNCHANGED <<info, dispVars, fnVars, trkVars>>

\* MetainfoBuilder::set_private_flag: delegates to the InfoBuilder.
SetPrivateFlag ==
    \E opt \in OptBools :
        /\ info' = set_private_flag(info, opt)
        /\ calls' = [calls EXCEPT !.private = [called |-> TRUE, opt |-> opt]]
        /\ UNCHANGED <<root, dispVars, fnVars, trkVars>>

BldNext ==
    \/ SetTrackers
    \/ SetMainTracker
    \/ SetCreationDate
    \/ SetComment
    \/ SetCreatedBy
    \/ SetPrivateFlag

SpecBuilder == BldInit /\ [][BldNext]_vars

\* C8: the info dictionary reflects the last set_private_flag call: key
\* `private` is the integer 1 after Some(true), 0 after Some(false), and
\* absent after None.
C8_PrivateFlag ==
    calls.private.called =>
        IF calls.private.opt.some
        THEN /\ PRIVATE_KEY \in DOMAIN info
             /\ info[PRIVATE_KEY] = ben_int(IF calls.private.opt.b THEN 1 ELSE 0)
        ELSE PRIVATE_KEY \notin DOMAIN info

\* What the five getters of the root dictionary d return.
Getters(d) ==
    [trackers |-> get_trackers(d), main_tracker |-> get_main_tracker(d),
     creation_date |-> get_creation_date(d), comment |-> get_comment(d),
     created_by |-> get_created_by(d)]

RootFields == {"trackers", "main_tracker", "creation_date", "comment", "created_by"}

\* Each getter returns the argument of the last call of its setter, None
\* when the setter was never called.
GettersReturnLastSet ==
    \A f \in RootFields :
        Getters(root)[f] = IF calls[f].called THEN calls[f].opt ELSE None

\* C27: for each optional top-level field (main tracker, tracker list,
\* creation date, comment, created by), after any sequence of setter calls
\* the getter returns the argument of the most recent call of that field's
\* setter (None if it was never set or last set with None), and a step that
\* calls no setter of a field leaves that field's getter unchanged.
C27_GettersFollowSetters ==
    /\ []GettersReturnLastSet
    /\ [][(root' /= root) =>
            \E f \in RootFields :
                /\ calls'[f].called
                /\ \A g \in RootFields \ {f} :
                      /\ calls'[g] = calls[g]
                      /\ Getters(root')[g] = Getters(root)[g]]_vars

\* C27 witness: the main tracker was set and then unset while a tracker
\* list and a comment stay set.
C27_Witness ==
    /\ calls.main_tracker.called /\ ~calls.main_tracker.opt.some
    /\ get_main_tracker(root) = None
    /\ get_trackers(root).some /\ Len(get_trackers(root).v.l) = 2
    /\ get_comment(root) = Some(ben_bytes(""))
    /\ ~calls.creation_date.called

(***************************************************************************)
(*   DHT message codec: responses and announce_peer (dht/src/message)      *)
(***************************************************************************)

\* Byte strings are sequences of byte values; dictionaries are functions
\* from the keys present. Both are carried in field l of a bencode value.
ben_raw(bytes) == [t |-> "bytes", i |-> 0, s |-> "", l |-> bytes]
ben_map(d)     == [t |-> "dict",  i |-> 0, s |-> "", l |-> d]

Bytes(n, b) == [k \in 1..n |-> b]

\* Result<T, DhtError>; Abort is a panic (no value is returned).
Ok(x)  == [ok |-> TRUE,  panic |-> FALSE, v |-> x, err |-> "none", detail |-> "none"]
Err(kind, detail) ==
    [ok |-> FALSE, panic |-> FALSE, v |-> "none", err |-> kind, detail |-> detail]
Abort  == [ok |-> FALSE, panic |-> TRUE, v |-> "none", err |-> "none", detail |-> "none"]

NODE_ID_LEN       == 20
INFO_HASH_LEN     == 20
BYTES_PER_NODE    == 26
BYTES_PER_VALUE   == 6
U16_MODULUS       == 65536

RESPONSE_ARGS_KEY == "r"
NODE_ID_KEY       == "id"
INFO_HASH_KEY     == "info_hash"
TOKEN_KEY         == "token"
NODES_KEY         == "nodes"
VALUES_KEY        == "values"
PORT_KEY          == "port"
IMPLIED_PORT_KEY  == "implied_port"

\* BConvert for ResponseValidate / RequestValidate, handle_error: the
\* BencodeConvertError is converted as it is (error.into()); it names the
\* key and what was wrong with it and has no access to the transaction id.
handle_error(key, what) == Err("BencodeConvert", <<key, what>>)

\* BConvert::lookup_and_convert_{bytes,int,dict,list}: the value under the
\* key if it is present and of the wanted bencode type.
lookup_and_convert(d, key, type) ==
    IF key \notin DOMAIN d THEN handle_error(key, "MissingKey")
    ELSE IF d[key].t /= type THEN handle_error(key, "WrongType")
    ELSE Ok(IF type = "int" THEN d[key].i ELSE d[key].l)

\* The details of an InvalidResponse: format!("TID {:?} ...", self.trans_id).
Details(trans_id, text) == [tid |-> trans_id, text |-> text]

\* ResponseValidate::validate_node_id (NodeId::from_hash: exactly 20 bytes).
response_validate_node_id(trans_id, bytes) ==
    IF Len(bytes) = NODE_ID_LEN THEN Ok(bytes)
    ELSE Err("InvalidResponse", Details(trans_id, "Found Node ID With Invalid Length"))

\* ResponseValidate::validate_nodes (CompactNodeInfo::new: a multiple of 26).
response_validate_nodes(trans_id, bytes) ==
    IF Len(bytes) % BYTES_PER_NODE = 0 THEN Ok(bytes)
    ELSE Err("InvalidResponse",
             Details(trans_id, "Found Nodes Structure With Wrong Number Of Bytes"))

\* Mutant of response_validate_values: the sizes are checked first, element
\* by element, and the type of an element only when it is reached.
response_validate_values_size_first(trans_id, list) ==
    IF \E k \in DOMAIN list :
          /\ list[k].t = "bytes" /\ Len(list[k].l) /= BYTES_PER_VALUE
          /\ \A j \in 1..(k - 1) : list[j].t = "bytes"
    THEN Err("InvalidResponse",
             Details(trans_id, "Found Values Structure With Wrong Number Of Bytes"))
    ELSE IF \E k \in DOMAIN list : list[k].t /= "bytes"
    THEN Err("InvalidResponse",
             Details(trans_id, "Found Values Structure As Non Bytes Type"))
    ELSE Ok(list)

\* ResponseValidate::validate_values: every element a byte string, then
\* CompactValueInfo::new (every element 6 bytes).
response_validate_values(trans_id, list) ==
    IF \E k \in DOMAIN list : list[k].t /= "bytes"
    THEN Err("InvalidResponse",
             Details(trans_id, "Found Values Structure As Non Bytes Type"))
    ELSE IF \E k \in DOMAIN list : Len(list[k].l) /= BYTES_PER_VALUE
    THEN Err("InvalidResponse",
             Details(trans_id, "Found Values Structure With Wrong Number Of Bytes"))
    ELSE Ok(list)

\* RequestValidate::validate_node_id / validate_info_hash.
request_validate_hash(bytes, what) ==
    IF Len(bytes) = NODE_ID_LEN THEN Ok(bytes)
    ELSE Err("InvalidRequest", what)

\* PingResponse::from_parts.
PingResponse_from_parts(rqst_root, trans_id) ==
    LET idb == lookup_and_convert(rqst_root, NODE_ID_KEY, "bytes") IN
    IF ~idb.ok THEN idb ELSE
    LET id == response_validate_node_id(trans_id, idb.v) IN
    IF ~id.ok THEN id ELSE
    Ok([kind |-> "Ping", trans_id |-> trans_id, node_id |-> id.v])

\* FindNodeResponse::from_parts.
FindNodeResponse_from_parts(rqst_root, trans_id) ==
    LET idb == lookup_and_convert(rqst_root, NODE_ID_KEY, "bytes") IN
    IF ~idb.ok THEN idb ELSE
    LET id == response_validate_node_id(trans_id, idb.v) IN
    IF ~id.ok THEN id ELSE
    LET nb == lookup_and_convert(rqst_root, NODES_KEY, "bytes") IN
    IF ~nb.ok THEN nb ELSE
    LET nodes == response_validate_nodes(trans_id, nb.v) IN
    IF ~nodes.ok THEN nodes ELSE
    Ok([kind |-> "FindNode", trans_id |-> trans_id, node_id |-> id.v])

\* GetPeersResponse::from_parts.
GetPeersResponse_from_parts(rqst_root, trans_id) ==
    LET idb == lookup_and_convert(rqst_root, NODE_ID_KEY, "bytes") IN
    IF ~idb.ok THEN idb ELSE
    LET id == response_validate_node_id(trans_id, idb.v) IN
    IF ~id.ok THEN id ELSE
    LET token == lookup_and_convert(rqst_root, TOKEN_KEY, "bytes") IN
    IF ~token.ok THEN token ELSE
    LET nb == lookup_and_convert(rqst_root, NODES_KEY, "bytes")
        vl == lookup_and_convert(rqst_root, VALUES_KEY, "list")
        nodes == IF nb.ok THEN response_validate_nodes(trans_id, nb.v) ELSE nb
        values == IF vl.ok THEN response_validate_values(trans_id, vl.v) ELSE vl
    IN IF nb.ok /\ ~nodes.ok THEN nodes
       ELSE IF vl.ok /\ ~values.ok THEN values
       ELSE IF ~nb.ok /\ ~vl.ok
       THEN Err("InvalidResponse",
                Details(trans_id, "Failed To Find nodes Or values In Node Response"))
       ELSE Ok([kind |-> "GetPeers", trans_id |-> trans_id, node_id |-> id.v])

\* AnnouncePeerResponse::from_parts.
AnnouncePeerResponse_from_parts(rqst_root, trans_id) ==
    LET idb == lookup_and_convert(rqst_root, NODE_ID_KEY, "bytes") IN
    IF ~idb.ok THEN idb ELSE
    LET id == request_validate_hash(idb.v, "Found Node ID With Invalid Length") IN
    IF ~id.ok THEN id ELSE
    Ok([kind |-> "AnnouncePeer", trans_id |-> trans_id, node_id |-> id.v])

ExpectedResponse ==
    {"Ping", "FindNode", "GetPeers", "AnnouncePeer", "GetData", "PutData", "None"}

\* Mutant of ResponseDispatch: the kinds that are not implemented are
\* reported as an error.
ResponseDispatch_unimplemented_as_error(rqst_root, trans_id, rsp_type) ==
    CASE rsp_type = "Ping" -> PingResponse_from_parts(rqst_root, trans_id)
      [] rsp_type = "FindNode" -> FindNodeResponse_from_parts(rqst_root, trans_id)
      [] rsp_type = "GetPeers" -> GetPeersResponse_from_parts(rqst_root, trans_id)
      [] rsp_type = "AnnouncePeer" ->
            AnnouncePeerResponse_from_parts(rqst_root, trans_id)
      [] rsp_type \in {"GetData", "PutData"} -> Err("UnsolicitedResponse", "none")
      [] rsp_type = "None" -> Err("UnsolicitedResponse", "none")

\* Mutant of ResponseDispatch: a body that holds `nodes` is parsed as a
\* find_node response even when a ping response is expected.
ResponseDispatch_by_content(rqst_root, trans_id, rsp_type) ==
    CASE rsp_type = "Ping" ->
            IF NODES_KEY \in DOMAIN rqst_root
            THEN FindNodeResponse_from_parts(rqst_root, trans_id)
            ELSE PingResponse_from_parts(rqst_root, trans_id)
      [] rsp_type = "FindNode" -> FindNodeResponse_from_parts(rqst_root, trans_id)
      [] rsp_type = "GetPeers" -> GetPeersResponse_from_parts(rqst_root, trans_id)
      [] rsp_type = "AnnouncePeer" ->
            AnnouncePeerResponse_from_parts(rqst_root, trans_id)
      [] rsp_type \in {"GetData", "PutData"} -> Abort
      [] rsp_type = "None" -> Err("UnsolicitedResponse", "none")

\* The match of ResponseType::from_parts on the expected kind.
ResponseDispatch(rqst_root, trans_id, rsp_type) ==
    CASE rsp_type = "Ping" -> PingResponse_from_parts(rqst_root, trans_id)
      [] rsp_type = "FindNode" -> FindNodeResponse_from_parts(rqst_root, trans_id)
      [] rsp_type = "GetPeers" -> GetPeersResponse_from_parts(rqst_root, trans_id)
      [] rsp_type = "AnnouncePeer" ->
            AnnouncePeerResponse_from_parts(rqst_root, trans_id)
      [] rsp_type \in {"GetData", "PutData"} -> Abort
      [] rsp_type = "None" -> Err("UnsolicitedResponse", "none")

\* Mutant of ResponseType_from_parts: an unexpected response is parsed as a
\* ping response instead of being reported.
ResponseType_from_parts_none_as_ping(msg_root, trans_id, rsp_type) ==
    LET rqst_root == lookup_and_convert(msg_root, RESPONSE_ARGS_KEY, "dict") IN
    IF ~rqst_root.ok THEN rqst_root
    ELSE ResponseDispatch(rqst_root.v, trans_id,
                          IF rsp_type = "None" THEN "Ping" ELSE rsp_type)

\* ResponseType::from_parts: look up the `r` dictionary, then dispatch.
ResponseType_from_parts(msg_root, trans_id, rsp_type) ==
    LET rqst_root == lookup_and_convert(msg_root, RESPONSE_ARGS_KEY, "dict") IN
    IF ~rqst_root.ok THEN rqst_root
    ELSE ResponseDispatch(rqst_root.v, trans_id, rsp_type)

\* Mutant of PortNumber: a port outside 0..65535 is cut to the nearest
\* value of the range.
PortNumber_saturating(port) ==
    IF port < 0 THEN 0 ELSE IF port >= U16_MODULUS THEN U16_MODULUS - 1 ELSE port

\* (port?).unsigned_abs() as u16
PortNumber(port) == (IF port < 0 THEN 0 - port ELSE port) % U16_MODULUS

Implied     == [kind |-> "Implied", n |-> 0]
Explicit(n) == [kind |-> "Explicit", n |-> n]

HasDict(d, key)  == key \in DOMAIN d /\ d[key].t = "dict"
HasBytes(d, key) == key \in DOMAIN d /\ d[key].t = "bytes"
HasInt(d, key)   == key \in DOMAIN d /\ d[key].t = "int"

\* Mutant of explicit_port: a request without an integer `port` is given
\* port 0 instead of being rejected.
explicit_port_or_zero(rqst_root) ==
    LET port == lookup_and_convert(rqst_root, PORT_KEY, "int") IN
    IF ~port.ok THEN Ok(Explicit(0)) ELSE Ok(Explicit(PortNumber(port.v)))

\* The tail of the `_` arm, lines 77-82: port is required and truncated.
explicit_port(rqst_root) ==
    LET port == lookup_and_convert(rqst_root, PORT_KEY, "int") IN
    IF ~port.ok THEN port ELSE Ok(Explicit(PortNumber(port.v)))

\* Mutant of response_port: only implied_port = 1 selects the implied port.
response_port_only_one(rqst_root) ==
    IF HasInt(rqst_root, IMPLIED_PORT_KEY) /\ rqst_root[IMPLIED_PORT_KEY].i = 1
    THEN Ok(Implied)
    ELSE explicit_port(rqst_root)

\* Lines 71-83 of AnnouncePeerRequest::from_parts: the connect port.
\*   match rqst_root.lookup(IMPLIED_PORT_KEY).map(int) {
\*       Some(Some(n)) if n != 0 => Implied,  _ => Explicit((port?) ...) }
response_port(rqst_root) ==
    IF HasInt(rqst_root, IMPLIED_PORT_KEY) /\ rqst_root[IMPLIED_PORT_KEY].i /= 0
    THEN Ok(Implied)
    ELSE explicit_port(rqst_root)

\* AnnouncePeerRequest::from_parts.
AnnouncePeerRequest_from_parts(rqst_root, trans_id) ==
    LET idb == lookup_and_convert(rqst_root, NODE_ID_KEY, "bytes") IN
    IF ~idb.ok THEN idb ELSE
    LET id == request_validate_hash(idb.v, "Found Node ID With Invalid Length") IN
    IF ~id.ok THEN id ELSE
    LET ihb == lookup_and_convert(rqst_root, INFO_HASH_KEY, "bytes") IN
    IF ~ihb.ok THEN ihb ELSE
    LET ih == request_validate_hash(ihb.v, "Found InfoHash With Invalid Length") IN
    IF ~ih.ok THEN ih ELSE
    LET token == lookup_and_convert(rqst_root, TOKEN_KEY, "bytes") IN
    IF ~token.ok THEN token ELSE
    LET port == response_port(rqst_root) IN
    IF ~port.ok THEN port ELSE
    Ok([kind |-> "AnnouncePeerRequest", trans_id |-> trans_id, node_id |-> id.v,
        info_hash |-> ih.v, token |-> token.v, port |-> port.v])

\* ---- encoding ----

\* The bytes of the dictionary keys used by the DHT messages (ASCII).
KeyBytes(key) ==
    CASE key = "a"            -> <<97>>
      [] key = "id"           -> <<105, 100>>
      [] key = "implied_port" ->
            <<105, 109, 112, 108, 105, 101, 100, 95, 112, 111, 114, 116>>
      [] key = "info_hash"    -> <<105, 110, 102, 111, 95, 104, 97, 115, 104>>
      [] key = "port"         -> <<112, 111, 114, 116>>
      [] key = "q"            -> <<113>>
      [] key = "r"            -> <<114>>
      [] key = "t"            -> <<116>>
      [] key = "token"        -> <<116, 111, 107, 101, 110>>
      [] key = "y"            -> <<121>>

\* Byte strings in ascending byte order (the order of the BTreeMap behind a
\* bencode dictionary).
RECURSIVE BytesLess(_, _)
BytesLess(x, y) ==
    IF x = <<>> THEN y /= <<>>
    ELSE IF y = <<>> THEN FALSE
    ELSE IF Head(x) /= Head(y) THEN Head(x) < Head(y)
    ELSE BytesLess(Tail(x), Tail(y))

RECURSIVE SortedKeys(_)
SortedKeys(keys) ==
    IF keys = {} THEN <<>>
    ELSE LET first == CHOOSE k \in keys :
                        \A j \in keys \ {k} : BytesLess(KeyBytes(k), KeyBytes(j))
         IN <<first>> \o SortedKeys(keys \ {first})

\* ben_map!{ k1 => v1, ... }: a new dictionary with the pairs inserted in
\* the order they are written.
RECURSIVE ben_map_of(_)
ben_map_of(pairs) ==
    IF pairs = <<>> THEN new_dict
    ELSE dict_insert(ben_map_of(SubSeq(pairs, 1, Len(pairs) - 1)),
                     pairs[Len(pairs)][1], pairs[Len(pairs)][2]).dict

\* The encoded form is the sequence of bencode items: `d`, then key and
\* value of every entry, then `e`; integers and byte strings are one item.
DictStart == [t |-> "d", i |-> 0, s |-> "", l |-> <<>>]
DictEnd   == [t |-> "e", i |-> 0, s |-> "", l |-> <<>>]

RECURSIVE encode(_)
RECURSIVE encode_entries(_, _)
\* Bencode::encode: a dictionary is written with its keys ascending.
encode(v) ==
    IF v.t = "dict"
    THEN <<DictStart>> \o encode_entries(v.l, SortedKeys(DOMAIN v.l)) \o <<DictEnd>>
    ELSE <<v>>
encode_entries(d, keys) ==
    IF keys = <<>> THEN <<>>
    ELSE <<ben_bytes(Head(keys))>> \o encode(d[Head(keys)])
         \o encode_entries(d, Tail(keys))

RECURSIVE decode_at(_, _)
RECURSIVE decode_dict(_, _, _)
\* BencodeRef::decode of a well-formed encoding: the item at pos and the
\* position after it.
decode_at(items, pos) ==
    IF items[pos].t = "d" THEN decode_dict(items, pos + 1, new_dict)
    ELSE [v |-> items[pos], next |-> pos + 1]
decode_dict(items, pos, d) ==
    IF items[pos].t = "e" THEN [v |-> ben_map(d), next |-> pos + 1]
    ELSE LET value == decode_at(items, pos + 1) IN
         decode_dict(items, value.next, dict_insert(d, items[pos].s, value.v).dict)
decode(items) == decode_at(items, 1).v

\* Mutant of port_values: the two values of the Implied arm are swapped.
port_values_swapped(port) ==
    IF port.kind = "Implied" THEN <<1, 0>> ELSE <<port.n, 0>>

\* AnnouncePeerRequest::encode, lines 117-120: (displayed_port, implied_value).
port_values(port) ==
    IF port.kind = "Implied" THEN <<0, 1>> ELSE <<port.n, 0>>

\* Mutant of AnnouncePeerRequest_args: `port` is left out when the port is
\* implied.
AnnouncePeerRequest_args_port_optional(m) ==
    <<<<NODE_ID_KEY, ben_raw(m.node_id)>>,
      <<IMPLIED_PORT_KEY, ben_int(port_values(m.port)[2])>>,
      <<INFO_HASH_KEY, ben_raw(m.info_hash)>>>>
    \o (IF m.port.kind = "Implied" THEN <<>>
        ELSE <<<<PORT_KEY, ben_int(port_values(m.port)[1])>>>>)
    \o <<<<TOKEN_KEY, ben_raw(m.token)>>>>

\* AnnouncePeerRequest::encode, lines 127-133: the pairs of the arguments
\* dictionary as written.
AnnouncePeerRequest_args(m) ==
    <<<<NODE_ID_KEY, ben_raw(m.node_id)>>,
      <<IMPLIED_PORT_KEY, ben_int(port_values(m.port)[2])>>,
      <<INFO_HASH_KEY, ben_raw(m.info_hash)>>,
      <<PORT_KEY, ben_int(port_values(m.port)[1])>>,
      <<TOKEN_KEY, ben_raw(m.token)>>>>

\* AnnouncePeerRequest::encode, lines 122-134: the pairs of the message as
\* written (TRANSACTION_ID_KEY "t", MESSAGE_TYPE_KEY "y", REQUEST_TYPE_KEY
\* "q", REQUEST_ARGS_KEY "a").
AnnouncePeerRequest_pairs(m) ==
    <<<<"t", ben_raw(m.trans_id)>>,
      <<"y", ben_bytes("q")>>,
      <<"q", ben_bytes("announce_peer")>>,
      <<"a", ben_map(ben_map_of(AnnouncePeerRequest_args(m)))>>>>

\* Mutant of AnnouncePeerRequest_encode: the top-level entries are written
\* in the order the builder inserted them.
AnnouncePeerRequest_encode_as_inserted(m) ==
    LET pairs == AnnouncePeerRequest_pairs(m)
        entry(k) == <<ben_bytes(pairs[k][1])>> \o encode(pairs[k][2])
    IN <<DictStart>> \o entry(1) \o entry(2) \o entry(3) \o entry(4) \o <<DictEnd>>

\* AnnouncePeerRequest::encode
AnnouncePeerRequest_encode(m) ==
    encode(ben_map(ben_map_of(AnnouncePeerRequest_pairs(m))))

\* AnnouncePeerResponse::encode (RESPONSE_TYPE_KEY "r").
AnnouncePeerResponse_encode(m) ==
    encode(ben_map(ben_map_of(
        <<<<"t", ben_raw(m.trans_id)>>,
          <<"y", ben_bytes("r")>>,
          <<"r", ben_map(ben_map_of(<<<<NODE_ID_KEY, ben_raw(m.node_id)>>>>))>>>>)))

\* ---- inputs ----
MaxByte == 1    \* byte values used in identifiers

Absent == {<<>>}
Field(key, values) == Absent \cup {[k \in {key} |-> v] : v \in values}
\* The union of two dictionaries with disjoint keys.
Merge(d1, d2) ==
    [k \in DOMAIN d1 \cup DOMAIN d2 |-> IF k \in DOMAIN d1 THEN d1[k] ELSE d2[k]]

NodeIds == {Bytes(NODE_ID_LEN, b) : b \in 0..MaxByte}
IdValues ==
    {ben_raw(x) : x \in NodeIds} \cup {ben_raw(Bytes(NODE_ID_LEN - 1, 0)), ben_int(7)}
NodesValues ==
    {ben_raw(Bytes(BYTES_PER_NODE, 0)), ben_raw(Bytes(BYTES_PER_NODE - 1, 0))}
TokenValues == {ben_raw(Bytes(2, 0)), ben_int(7)}
ValuesValues ==
    {ben_list(<<ben_raw(Bytes(BYTES_PER_VALUE, 0))>>),
     ben_list(<<ben_raw(Bytes(BYTES_PER_VALUE, 0)),
                ben_raw(Bytes(BYTES_PER_VALUE - 1, 0))>>),
     ben_list(<<ben_int(7)>>)}

\* Elements of a `values` list: 6 bytes, too short, too long, not bytes.
ValueElements ==
    {<<ben_raw(Bytes(BYTES_PER_VALUE, 0))>>, <<ben_raw(Bytes(BYTES_PER_VALUE - 1, 0))>>,
     <<ben_raw(Bytes(BYTES_PER_VALUE + 1, 0))>>, <<ben_int(7)>>, <<ben_raw(<<>>)>>}

ResponseBodies ==
    {Merge(Merge(a, b), Merge(c, d)) :
        a \in Field(NODE_ID_KEY, IdValues), b \in Field(NODES_KEY, NodesValues),
        c \in Field(TOKEN_KEY, TokenValues), d \in Field(VALUES_KEY, ValuesValues)}

ResponseRoots ==
    Field(RESPONSE_ARGS_KEY, {ben_int(7)} \cup {ben_map(b) : b \in ResponseBodies})

PortInts == {0 - 6881, 0 - 1, 0, 1, 6881, U16_MODULUS - 1, U16_MODULUS,
             U16_MODULUS + 6881}
PortValues == {ben_int(n) : n \in PortInts} \cup {ben_raw(Bytes(2, 0))}
ImpliedInts == {0 - 1, 0, 1, 2}
ImpliedValues == {ben_int(n) : n \in ImpliedInts} \cup {ben_raw(Bytes(1, 1))}

AnnounceRequestBodies ==
    {Merge(Merge(Merge(a, b), c), Merge(d, e)) :
        a \in Field(NODE_ID_KEY, {ben_raw(Bytes(NODE_ID_LEN, 0)),
                                  ben_raw(Bytes(NODE_ID_LEN + 1, 0))}),
        b \in Field(INFO_HASH_KEY, {ben_raw(Bytes(INFO_HASH_LEN, 1))}),
        c \in Field(TOKEN_KEY, TokenValues),
        d \in Field(PORT_KEY, PortValues),
        e \in Field(IMPLIED_PORT_KEY, ImpliedValues)}

TransIds == {<<97, 97>>, <<0>>}

\* Messages handed to encode: the fields a response does not have are empty.
ConnectPorts == {Implied} \cup {Explicit(n) : n \in {0, 1, 6881, U16_MODULUS - 1}}
NoMessage ==
    [kind |-> "none", trans_id |-> <<>>, node_id |-> <<>>, info_hash |-> <<>>,
     token |-> <<>>, port |-> Implied]
AnnouncePeerRequests ==
    [kind : {"AnnouncePeerRequest"}, trans_id : TransIds, node_id : NodeIds,
     info_hash : {Bytes(INFO_HASH_LEN, 1)}, token : {<<>>, Bytes(2, 0)},
     port : ConnectPorts]
AnnouncePeerResponses ==
    [kind : {"AnnouncePeer"}, trans_id : TransIds, node_id : NodeIds,
     info_hash : {<<>>}, token : {<<>>}, port : {Implied}]

\* Inputs of the validators.
MaxNodes == 2     \* validate_nodes is tried on up to MaxNodes whole nodes
ValidateInputs ==
    [fn : {"validate_node_id"},
     input : {ben_raw(Bytes(n, 0)) : n \in {0, 1, NODE_ID_LEN - 1, NODE_ID_LEN,
                                             NODE_ID_LEN + 1, 2 * NODE_ID_LEN}}]
    \cup
    [fn : {"validate_nodes"},
     input : {ben_raw(Bytes(k * BYTES_PER_NODE + d, 0)) :
                k \in 0..MaxNodes, d \in {0, 1, BYTES_PER_NODE - 1}}]
    \cup
    [fn : {"validate_values"},
     input : {ben_list(l) : l \in
                {<<>>} \cup ValueElements
                \cup {x \o y : x \in ValueElements, y \in ValueElements}}]

DhtCalls ==
    [fn : {"ResponseType::from_parts"}, root : ResponseRoots,
     trans_id : TransIds, rsp_type : ExpectedResponse, msg : {NoMessage},
     input : {BNone}]
    \cup
    [fn : {"AnnouncePeerRequest::from_parts"}, root : AnnounceRequestBodies,
     trans_id : TransIds, rsp_type : {"None"}, msg : {NoMessage}, input : {BNone}]
    \cup
    {[fn |-> "AnnouncePeerRequest::encode", root |-> new_dict,
      trans_id |-> m.trans_id, rsp_type |-> "None", msg |-> m, input |-> BNone] :
        m \in AnnouncePeerRequests}
    \cup
    {[fn |-> "AnnouncePeerResponse::encode", root |-> new_dict,
      trans_id |-> m.trans_id, rsp_type |-> "None", msg |-> m, input |-> BNone] :
        m \in AnnouncePeerResponses}
    \cup
    {[fn |-> c.fn, root |-> new_dict, trans_id |-> t, rsp_type |-> "None",
      msg |-> NoMessage, input |-> c.input] : c \in ValidateInputs, t \in TransIds}

Pending == [done |-> FALSE, r |-> Abort, out |-> <<>>]

DhtInit ==
    /\ DispIdle /\ TrkIdle /\ BldIdle
    /\ arg \in DhtCalls
    /\ res = Pending

ParseResponse ==
    /\ ~res.done /\ arg.fn = "ResponseType::from_parts"
    /\ res' = [res EXCEPT !.done = TRUE,
               !.r = ResponseType_from_parts(arg.root, arg.trans_id, arg.rsp_type)]
    /\ UNCHANGED <<arg, dispVars, bldVars, trkVars>>

ParseAnnouncePeerRequest ==
    /\ ~res.done /\ arg.fn = "AnnouncePeerRequest::from_parts"
    /\ res' = [res EXCEPT !.done = TRUE,
               !.r = AnnouncePeerRequest_from_parts(arg.root, arg.trans_id)]
    /\ UNCHANGED <<arg, dispVars, bldVars, trkVars>>

\* encode of an announce_peer request or response.
Encode ==
    /\ ~res.done /\ res.out = <<>>
    /\ arg.fn \in {"AnnouncePeerRequest::encode", "AnnouncePeerResponse::encode"}
    /\ res' = [res EXCEPT !.out =
                  IF arg.fn = "AnnouncePeerRequest::encode"
                  THEN AnnouncePeerRequest_encode(arg.msg)
                  ELSE AnnouncePeerResponse_encode(arg.msg)]
    /\ UNCHANGED <<arg, dispVars, bldVars, trkVars>>

\* The receiver decodes the message and parses its `a` (request) or `r`
\* (response) dictionary with the transaction id of the message.
ParseEncoded ==
    /\ ~res.done /\ res.out /= <<>>
    /\ res' = [res EXCEPT !.done = TRUE, !.r =
                  IF arg.fn = "AnnouncePeerRequest::encode"
                  THEN AnnouncePeerRequest_from_parts(
                          decode(res.out).l["a"].l, arg.msg.trans_id)
                  ELSE AnnouncePeerResponse_from_parts(
                          decode(res.out).l["r"].l, arg.msg.trans_id)]
    /\ UNCHANGED <<arg, dispVars, bldVars, trkVars>>

\* A direct call of one of the ResponseValidate validators.
Validate ==
    /\ ~res.done
    /\ arg.fn \in {"validate_node_id", "validate_nodes", "validate_values"}
    /\ res' = [res EXCEPT !.done = TRUE, !.r =
                  CASE arg.fn = "validate_node_id" ->
                          response_validate_node_id(arg.trans_id, arg.input.l)
                    [] arg.fn = "validate_nodes" ->
                          response_validate_nodes(arg.trans_id, arg.input.l)
                    [] arg.fn = "validate_values" ->
                          response_validate_values(arg.trans_id, arg.input.l)]
    /\ UNCHANGED <<arg, dispVars, bldVars, trkVars>>

DhtNext ==
    \/ ParseResponse
    \/ ParseAnnouncePeerRequest
    \/ Encode
    \/ ParseEncoded
    \/ Validate

SpecDht == DhtInit /\ [][DhtNext]_vars

ResponseParsed == res.done /\ arg.fn = "ResponseType::from_parts"
AnnounceRequestParsed == res.done /\ arg.fn = "AnnouncePeerRequest::from_parts"

\* C9 as claimed: with expected kind None, from_parts returns
\* UnsolicitedResponse for every response message, whatever it contains.
C9_UnsolicitedAlways ==
    (ResponseParsed /\ arg.rsp_type = "None") =>
        (~res.r.ok /\ ~res.r.panic /\ res.r.err = "UnsolicitedResponse")

\* C9 as amended: with expected kind None, from_parts returns
\* UnsolicitedResponse for every response message whose `r` key is present
\* and a dictionary, whatever that dictionary contains; when `r` is missing
\* or not a dictionary it returns the error of the `r` lookup instead.
C9_UnsolicitedWhenBodyPresent ==
    (ResponseParsed /\ arg.rsp_type = "None") =>
        /\ ~res.r.ok /\ ~res.r.panic
        /\ res.r.err = (IF HasDict(arg.root, "r") THEN "UnsolicitedResponse"
                        ELSE "BencodeConvert")

\* C9 witness: an unexpected response with a well-formed ping body was
\* reported as unsolicited.
C9_Witness ==
    /\ ResponseParsed /\ arg.rsp_type = "None"
    /\ HasDict(arg.root, "r") /\ HasBytes(arg.root["r"].l, "id")
    /\ Len(arg.root["r"].l["id"].l) = 20
    /\ res.r.err = "UnsolicitedResponse"

\* An announce_peer request whose id, info_hash and token are well-formed.
AnnounceBodyValid ==
    /\ HasBytes(arg.root, "id") /\ Len(arg.root["id"].l) = 20
    /\ HasBytes(arg.root, "info_hash") /\ Len(arg.root["info_hash"].l) = 20
    /\ HasBytes(arg.root, "token")

\* C10: an announce_peer request whose implied_port is a non-zero integer
\* (not only 1) parses to ConnectPort::Implied whatever `port` holds, and
\* also when `port` is absent or not an integer.
C10_ImpliedPortWins ==
    (AnnounceRequestParsed /\ AnnounceBodyValid
        /\ HasInt(arg.root, "implied_port") /\ arg.root["implied_port"].i /= 0) =>
        (res.r.ok /\ res.r.v.port.kind = "Implied")

\* C10 witness: implied_port = 2 with `port` absent was parsed as Implied.
C10_Witness ==
    /\ AnnounceRequestParsed /\ AnnounceBodyValid
    /\ HasInt(arg.root, "implied_port") /\ arg.root["implied_port"].i = 2
    /\ "port" \notin DOMAIN arg.root
    /\ res.r.ok /\ res.r.v.port.kind = "Implied"

\* The implied_port key does not select the source port: it is absent,
\* zero, or not an integer.
ImpliedPortOff ==
    ~(HasInt(arg.root, "implied_port") /\ arg.root["implied_port"].i /= 0)

\* C11: an announce_peer request whose implied_port is absent, zero or not
\* an integer uses `port`: an integer p in 0..65535 parses to Explicit(p);
\* when `port` is missing or not an integer, from_parts returns an error
\* and no request.
C11_ExplicitPortUsed ==
    (AnnounceRequestParsed /\ AnnounceBodyValid /\ ImpliedPortOff) =>
        IF HasInt(arg.root, "port")
        THEN arg.root["port"].i \in 0..(U16_MODULUS - 1) =>
                (res.r.ok /\ res.r.v.port = Explicit(arg.root["port"].i))
        ELSE ~res.r.ok /\ ~res.r.panic /\ res.r.err = "BencodeConvert"

\* C11 witness: implied_port = 0 with port = 6881 was parsed as
\* Explicit(6881).
C11_Witness ==
    /\ AnnounceRequestParsed /\ AnnounceBodyValid
    /\ HasInt(arg.root, "implied_port") /\ arg.root["implied_port"].i = 0
    /\ HasInt(arg.root, "port") /\ arg.root["port"].i = 6881
    /\ res.r.ok /\ res.r.v.port = Explicit(6881)

\* C11 witness of the error case: a request with no usable `port` and no
\* implied port was rejected.
C11_WitnessRejected ==
    /\ AnnounceRequestParsed /\ AnnounceBodyValid /\ ImpliedPortOff
    /\ ~HasInt(arg.root, "port") /\ ~res.r.ok

RequestEncoded   == arg.fn = "AnnouncePeerRequest::encode" /\ res.out /= <<>>
ResponseEncoded  == arg.fn = "AnnouncePeerResponse::encode" /\ res.out /= <<>>
RequestReturned  == RequestEncoded /\ res.done
ResponseReturned == ResponseEncoded /\ res.done

\* C16: for every AnnouncePeerRequest m (port Implied or Explicit(n)),
\* parsing the `a` dictionary of encode(m) with m's transaction id yields a
\* request equal to m; likewise every AnnouncePeerResponse and the `r`
\* dictionary of its encoding.
C16_AnnounceRoundTrip ==
    /\ RequestReturned => (res.r.ok /\ res.r.v = arg.msg)
    /\ ResponseReturned =>
          /\ res.r.ok
          /\ res.r.v.kind = "AnnouncePeer"
          /\ res.r.v.trans_id = arg.msg.trans_id
          /\ res.r.v.node_id = arg.msg.node_id

\* C16 witness: a request with the implied port came back with the implied
\* port.
C16_Witness ==
    /\ RequestReturned /\ arg.msg.port = Implied
    /\ res.r.ok /\ res.r.v.port = Implied

\* The arguments dictionary of the encoded request, as a receiver reads it.
EncodedArgs == decode(res.out).l["a"].l

\* C17: AnnouncePeerRequest::encode always emits both `port` and
\* `implied_port` in the arguments dictionary: port = 0 and implied_port = 1
\* when the port is Implied, port = n and implied_port = 0 when it is
\* Explicit(n).
C17_BothPortKeys ==
    RequestEncoded =>
        /\ {"port", "implied_port"} \subseteq DOMAIN EncodedArgs
        /\ EncodedArgs["port"] =
              ben_int(IF arg.msg.port.kind = "Implied" THEN 0 ELSE arg.msg.port.n)
        /\ EncodedArgs["implied_port"] =
              ben_int(IF arg.msg.port.kind = "Implied" THEN 1 ELSE 0)

\* C17 witness: a request with the implied port was encoded with port = 0
\* and implied_port = 1.
C17_Witness ==
    /\ RequestEncoded /\ arg.msg.port.kind = "Implied"
    /\ EncodedArgs["port"] = ben_int(0) /\ EncodedArgs["implied_port"] = ben_int(1)

\* The strings found at the given positions of the encoded items.
KeysAt(positions) == [k \in 1..Len(positions) |-> res.out[positions[k]].s]

\* C18: the encoded request lists its keys as a, q, t, y and those of its
\* arguments as id, implied_port, info_hash, port, token; the encoded
\* response lists r, t, y and id: ascending byte order in every dictionary,
\* whatever the order in which the builder inserted them.
C18_KeysAscending ==
    /\ RequestEncoded =>
          /\ Len(res.out) = 21
          /\ KeysAt(<<2, 15, 17, 19>>) = <<"a", "q", "t", "y">>
          /\ KeysAt(<<4, 6, 8, 10, 12>>) =
                <<"id", "implied_port", "info_hash", "port", "token">>
          /\ res.out[3].t = "d" /\ res.out[14].t = "e"
    /\ ResponseEncoded =>
          /\ Len(res.out) = 11
          /\ KeysAt(<<2, 7, 9>>) = <<"r", "t", "y">>
          /\ KeysAt(<<4>>) = <<"id">>
          /\ res.out[3].t = "d" /\ res.out[6].t = "e"

\* C18 witness: a request whose pairs were inserted in the order t, y, q, a
\* was encoded with `a` first and `y` last.
C18_Witness ==
    /\ RequestEncoded
    /\ AnnouncePeerRequest_pairs(arg.msg)[1][1] = "t"
    /\ AnnouncePeerRequest_pairs(arg.msg)[4][1] = "a"
    /\ res.out[2].s = "a" /\ res.out[19].s = "y"

Validated(fn) == res.done /\ arg.fn = fn

\* C19: the validators accept exactly the well-sized inputs and otherwise
\* return InvalidResponse: validate_node_id iff the byte string has exactly
\* 20 bytes, validate_nodes iff its length is a multiple of 26,
\* validate_values iff every element is a byte string of exactly 6 bytes,
\* a non-bytes element being rejected before any size is checked.
C19_ValidatorsExact ==
    /\ (res.done /\ arg.fn \in {"validate_node_id", "validate_nodes",
                                "validate_values"}) =>
          (~res.r.panic /\ (~res.r.ok => res.r.err = "InvalidResponse"))
    /\ Validated("validate_node_id") => (res.r.ok <=> Len(arg.input.l) = 20)
    /\ Validated("validate_nodes") => (res.r.ok <=> Len(arg.input.l) % 26 = 0)
    /\ Validated("validate_values") =>
          /\ res.r.ok <=> \A k \in DOMAIN arg.input.l :
                            /\ arg.input.l[k].t = "bytes"
                            /\ Len(arg.input.l[k].l) = 6
          /\ (\E k \in DOMAIN arg.input.l : arg.input.l[k].t /= "bytes") =>
                /\ ~res.r.ok
                /\ res.r.detail.text = "Found Values Structure As Non Bytes Type"

\* C19 witness: a list holding a 5-byte string and then an integer was
\* rejected for the integer, not for the size.
C19_Witness ==
    /\ Validated("validate_values") /\ Len(arg.input.l) = 2
    /\ arg.input.l[1].t = "bytes" /\ Len(arg.input.l[1].l) = 5
    /\ arg.input.l[2].t = "int"
    /\ ~res.r.ok /\ res.r.err = "InvalidResponse"
    /\ res.r.detail.text = "Found Values Structure As Non Bytes Type"

\* A response of an expected kind that lacks a required key: `r` is absent
\* or not a dictionary, or `id` inside `r` is absent or not a byte string.
RequiredKeyMissing ==
    /\ ResponseParsed
    /\ arg.rsp_type \in {"Ping", "FindNode", "GetPeers", "AnnouncePeer"}
    /\ \/ ~HasDict(arg.root, "r")
       \/ ~HasBytes(arg.root["r"].l, "id")

\* C20: when a required key of a response is missing or has the wrong
\* bencode type, ResponseType::from_parts returns the InvalidResponse error
\* with the transaction id in its details, and no message.
C20_MissingKeyIsInvalidResponse ==
    RequiredKeyMissing =>
        /\ ~res.r.ok /\ ~res.r.panic
        /\ res.r.err = "InvalidResponse"
        /\ res.r.detail.tid = arg.trans_id

\* C21: whenever ResponseType::from_parts succeeds, the expected kind is one
\* of Ping, FindNode, GetPeers, AnnouncePeer, and the returned variant is
\* that kind with the transaction id that was passed in, whatever keys the
\* `r` dictionary holds.
C21_DispatchOnExpectedKind ==
    (ResponseParsed /\ res.r.ok) =>
        /\ arg.rsp_type \in {"Ping", "FindNode", "GetPeers", "AnnouncePeer"}
        /\ res.r.v.kind = arg.rsp_type
        /\ res.r.v.trans_id = arg.trans_id

\* C21 witness: a body that also holds valid nodes, token and values was
\* returned as a ping response because a ping response was expected.
C21_Witness ==
    /\ ResponseParsed /\ arg.rsp_type = "Ping" /\ HasDict(arg.root, "r")
    /\ {"id", "nodes", "token", "values"} \subseteq DOMAIN arg.root["r"].l
    /\ Len(arg.root["r"].l["nodes"].l) = 26
    /\ res.r.ok /\ res.r.v.kind = "Ping" /\ res.r.v.trans_id = arg.trans_id

\* |port| mod 2^16, by subtraction.
WrappedPort(port) ==
    LET magnitude == IF port < 0 THEN 0 - port ELSE port
    IN magnitude - U16_MODULUS * (magnitude \div U16_MODULUS)

\* C37: an announce_peer request with an explicit integer `port` outside
\* 0..65535 is not rejected: from_parts returns Explicit(|port| mod 65536),
\* a negative port becoming its absolute value and a port above 65535
\* wrapping; only for a port in 0..65535 does Explicit carry the value sent.
C37_PortWraps ==
    (AnnounceRequestParsed /\ AnnounceBodyValid /\ ImpliedPortOff
        /\ HasInt(arg.root, "port")) =>
        /\ res.r.ok
        /\ res.r.v.port = Explicit(WrappedPort(arg.root["port"].i))
        /\ (res.r.v.port.n = arg.root["port"].i)
              <=> (arg.root["port"].i \in 0..(U16_MODULUS - 1))

\* C37 witness: port 65536 + 6881 was accepted as Explicit(6881).
C37_Witness ==
    /\ AnnounceRequestParsed /\ AnnounceBodyValid /\ ImpliedPortOff
    /\ HasInt(arg.root, "port") /\ arg.root["port"].i = U16_MODULUS + 6881
    /\ res.r.ok /\ res.r.v.port = Explicit(6881)

\* C37 witness: port -1 was accepted as Explicit(1).
C37_WitnessNegative ==
    /\ AnnounceRequestParsed /\ AnnounceBodyValid /\ ImpliedPortOff
    /\ HasInt(arg.root, "port") /\ arg.root["port"].i = 0 - 1
    /\ res.r.ok /\ res.r.v.port = Explicit(1)

\* C38: ResponseType::from_parts returns a value, Ok or Err, for the
\* expected kinds Ping, FindNode, GetPeers, AnnouncePeer and None; for
\* GetData and PutData with a well-formed `r` dictionary it aborts; and
\* when `r` is missing it returns the error of the `r` lookup, for every
\* expected kind.
C38_UnimplementedKindsAbort ==
    ResponseParsed =>
        IF ~HasDict(arg.root, "r")
        THEN ~res.r.ok /\ ~res.r.panic /\ res.r.err = "BencodeConvert"
        ELSE res.r.panic <=> arg.rsp_type \in {"GetData", "PutData"}

\* C38 witness: a well-formed ping body parsed with expected kind GetData
\* made from_parts abort.
C38_Witness ==
    /\ ResponseParsed /\ arg.rsp_type = "GetData" /\ res.r.panic
    /\ HasDict(arg.root, "r") /\ HasBytes(arg.root["r"].l, "id")
    /\ Len(arg.root["r"].l["id"].l) = 20

\* C38 witness: with `r` missing and expected kind PutData the lookup error
\* was returned.
C38_WitnessMissing ==
    /\ ResponseParsed /\ arg.rsp_type = "PutData"
    /\ "r" \notin DOMAIN arg.root
    /\ ~res.r.ok /\ ~res.r.panic /\ res.r.err = "BencodeConvert"

(***************************************************************************)
(*        UDP tracker request envelope (utracker/src/request.rs)           *)
(***************************************************************************)

\* Unsigned integers wider than 16 bits are carried as big-endian sequences
\* of 16-bit words (u32: two words, u64: four words), so that every value
\* of the type can be written down.
BYTE_MODULUS == 256
U32(n) == <<n \div U16_MODULUS, n % U16_MODULUS>>

\* pub const CONNECT_ID_PROTOCOL_ID: u64 = 0x0417_2710_1980
\* (0x0417 = 1047, 0x2710 = 10000, 0x1980 = 6528).
CONNECT_ID_PROTOCOL_ID == <<0, 1047, 10000, 6528>>

CONNECT_ACTION_ID       == 0
ANNOUNCE_IPV4_ACTION_ID == 1
SCRAPE_ACTION_ID        == 2
ANNOUNCE_IPV6_ACTION_ID == 4

\* WriteBytesExt::write_u32::<BigEndian> / write_u64::<BigEndian>: the
\* bytes of the value, most significant first.
RECURSIVE write_words(_)
write_words(words) ==
    IF words = <<>> THEN <<>>
    ELSE <<Head(words) \div BYTE_MODULUS, Head(words) % BYTE_MODULUS>>
         \o write_words(Tail(words))
write_u32(x) == write_words(x)
write_u64(x) == write_words(x)

\* nom IResult: Ok((remaining, value)) or Err(nom::Err::Error(kind)).
IOk(remaining, x) == [ok |-> TRUE, rest |-> remaining, v |-> x, err |-> "none"]
IErr(kind)        == [ok |-> FALSE, rest |-> <<>>, v |-> "none", err |-> kind]

Drop(bytes, n) == SubSeq(bytes, n + 1, Len(bytes))

\* nom be_u32 / be_u64: take 4 / 8 bytes, most significant first.
RECURSIVE be_words(_, _)
be_words(bytes, n) ==
    IF n = 0 THEN <<>>
    ELSE <<bytes[1] * BYTE_MODULUS + bytes[2]>> \o be_words(Drop(bytes, 2), n - 1)
be_u32(bytes) ==
    IF Len(bytes) < 4 THEN IErr("Eof") ELSE IOk(Drop(bytes, 4), be_words(bytes, 2))
be_u64(bytes) ==
    IF Len(bytes) < 8 THEN IErr("Eof") ELSE IOk(Drop(bytes, 8), be_words(bytes, 4))

\* tuple((be_u64, be_u32, be_u32))
header(bytes) ==
    LET c == be_u64(bytes) IN
    IF ~c.ok THEN c ELSE
    LET a == be_u32(c.rest) IN
    IF ~a.ok THEN a ELSE
    LET t == be_u32(a.rest) IN
    IF ~t.ok THEN t ELSE
    IOk(t.rest, [connection_id |-> c.v, action_id |-> a.v, transaction_id |-> t.v])


\* AnnounceRequest (utracker/src/announce.rs): the body
\*   info_hash(20) | peer_id(20) | downloaded(u64) | left(u64) | uploaded(u64)
\*   | event(u32) | ip(u32, or 16 bytes for v6) | key(u32) | num_want(i32)
\*   | port(u16).
\* The fields before the ip are carried together as `head`, those after it
\* as `tail`; source_ip is the address family with its octets.
ANNOUNCE_HEAD_LEN == INFO_HASH_LEN + 20 + 8 + 8 + 8 + 4
ANNOUNCE_TAIL_LEN == 4 + 4 + 2
IPV4_LEN          == 4
IPV6_LEN          == 16

AnnounceRequest(head, family, octets, tail) ==
    [head |-> head, source_ip |-> [family |-> family, octets |-> octets],
     tail |-> tail]
NoAnnounce == AnnounceRequest(<<>>, "none", <<>>, <<>>)

AnnounceRequest_write_bytes(req) == req.head \o req.source_ip.octets \o req.tail

AnnounceRequest_from_bytes(bytes, family, ip_len) ==
    IF Len(bytes) < ANNOUNCE_HEAD_LEN + ip_len + ANNOUNCE_TAIL_LEN THEN IErr("Eof")
    ELSE IOk(Drop(bytes, ANNOUNCE_HEAD_LEN + ip_len + ANNOUNCE_TAIL_LEN),
             AnnounceRequest(
                SubSeq(bytes, 1, ANNOUNCE_HEAD_LEN), family,
                SubSeq(bytes, ANNOUNCE_HEAD_LEN + 1, ANNOUNCE_HEAD_LEN + ip_len),
                SubSeq(bytes, ANNOUNCE_HEAD_LEN + ip_len + 1,
                       ANNOUNCE_HEAD_LEN + ip_len + ANNOUNCE_TAIL_LEN)))
AnnounceRequest_from_bytes_v4(bytes) == AnnounceRequest_from_bytes(bytes, "v4", IPV4_LEN)
AnnounceRequest_from_bytes_v6(bytes) == AnnounceRequest_from_bytes(bytes, "v6", IPV6_LEN)

\* ScrapeRequest (utracker/src/scrape.rs): one or more 20-byte info hashes,
\* to the end of the datagram.
ScrapeRequest(hashes) == [hashes |-> hashes]
NoScrape == ScrapeRequest(<<>>)
ScrapeRequest_write_bytes(req) == req.hashes
ScrapeRequest_from_bytes(bytes) ==
    IF Len(bytes) = 0 \/ Len(bytes) % INFO_HASH_LEN /= 0 THEN IErr("LengthValue")
    ELSE IOk(<<>>, ScrapeRequest(bytes))

\* enum RequestType { Connect, Announce(AnnounceRequest), Scrape(ScrapeRequest) }
Connect       == [kind |-> "Connect",  announce |-> NoAnnounce, scrape |-> NoScrape]
Announce(req) == [kind |-> "Announce", announce |-> req,        scrape |-> NoScrape]
Scrape(req)   == [kind |-> "Scrape",   announce |-> NoAnnounce, scrape |-> req]

\* TrackerRequest::new
TrackerRequest(conn_id, trans_id, req_type) ==
    [connection_id |-> conn_id, transaction_id |-> trans_id,
     request_type |-> req_type]

\* Mutant of write_bytes: every announce is written with the IPv4 action.
write_bytes_always_v4(r) ==
    write_u64(r.connection_id)
    \o CASE r.request_type.kind = "Connect" ->
              write_u32(U32(CONNECT_ACTION_ID)) \o write_u32(r.transaction_id)
         [] r.request_type.kind = "Announce" ->
              write_u32(U32(ANNOUNCE_IPV4_ACTION_ID))
              \o write_u32(r.transaction_id)
              \o AnnounceRequest_write_bytes(r.request_type.announce)
         [] r.request_type.kind = "Scrape" ->
              write_u32(U32(SCRAPE_ACTION_ID)) \o write_u32(r.transaction_id)
              \o ScrapeRequest_write_bytes(r.request_type.scrape)

\* TrackerRequest::write_bytes into an in-memory writer.
write_bytes(r) ==
    write_u64(r.connection_id)
    \o CASE r.request_type.kind = "Connect" ->
              write_u32(U32(CONNECT_ACTION_ID)) \o write_u32(r.transaction_id)
         [] r.request_type.kind = "Announce" ->
              write_u32(U32(IF r.request_type.announce.source_ip.family = "v4"
                            THEN ANNOUNCE_IPV4_ACTION_ID
                            ELSE ANNOUNCE_IPV6_ACTION_ID))
              \o write_u32(r.transaction_id)
              \o AnnounceRequest_write_bytes(r.request_type.announce)
         [] r.request_type.kind = "Scrape" ->
              write_u32(U32(SCRAPE_ACTION_ID)) \o write_u32(r.transaction_id)
              \o ScrapeRequest_write_bytes(r.request_type.scrape)

\* The arms (cid, ANNOUNCE_IPV4), (cid, SCRAPE), (cid, ANNOUNCE_IPV6) and _
\* of the match of parse_request.
parse_body(h, remaining) ==
    CASE h.action_id = U32(ANNOUNCE_IPV4_ACTION_ID) ->
            LET ann == AnnounceRequest_from_bytes_v4(remaining) IN
            IF ~ann.ok THEN ann
            ELSE IOk(ann.rest, TrackerRequest(h.connection_id, h.transaction_id,
                                              Announce(ann.v)))
      [] h.action_id = U32(SCRAPE_ACTION_ID) ->
            LET scr == ScrapeRequest_from_bytes(remaining) IN
            IF ~scr.ok THEN scr
            ELSE IOk(scr.rest, TrackerRequest(h.connection_id, h.transaction_id,
                                              Scrape(scr.v)))
      [] h.action_id = U32(ANNOUNCE_IPV6_ACTION_ID) ->
            LET ann == AnnounceRequest_from_bytes_v6(remaining) IN
            IF ~ann.ok THEN ann
            ELSE IOk(ann.rest, TrackerRequest(h.connection_id, h.transaction_id,
                                              Announce(ann.v)))
      [] OTHER -> IErr("Switch")

\* Mutant of parse_request: a connect is accepted with any connection id.
parse_request_any_connect(bytes) ==
    LET h == header(bytes) IN
    IF ~h.ok THEN h
    ELSE IF h.v.action_id = U32(CONNECT_ACTION_ID)
    THEN IOk(h.rest, TrackerRequest(CONNECT_ID_PROTOCOL_ID, h.v.transaction_id,
                                    Connect))
    ELSE parse_body(h.v, h.rest)

\* parse_request (TrackerRequest::from_bytes).
parse_request(bytes) ==
    LET h == header(bytes) IN
    IF ~h.ok THEN h
    ELSE IF /\ h.v.connection_id = CONNECT_ID_PROTOCOL_ID
            /\ h.v.action_id = U32(CONNECT_ACTION_ID)
    THEN IOk(h.rest, TrackerRequest(CONNECT_ID_PROTOCOL_ID, h.v.transaction_id,
                                    Connect))
    ELSE parse_body(h.v, h.rest)


\* ---- inputs ----
MaxAction  == 5     \* action codes 0..MaxAction are tried, and wide ones
HEADER_LEN == 8 + 4 + 4

TrackerConnectionIds ==
    {CONNECT_ID_PROTOCOL_ID, <<0, 0, 0, 0>>, <<0, 1047, 10000, 6529>>,
     <<65535, 65535, 65535, 65535>>}
TrackerTransactionIds == {U32(0), U32(1), <<258, 772>>, <<65535, 65535>>}

AnnounceRequests ==
    {AnnounceRequest(Bytes(ANNOUNCE_HEAD_LEN, b), "v4", Bytes(IPV4_LEN, 127),
                     Bytes(ANNOUNCE_TAIL_LEN, b)) : b \in {0, 255}}
    \cup {AnnounceRequest(Bytes(ANNOUNCE_HEAD_LEN, b), "v6", Bytes(IPV6_LEN, 1),
                          Bytes(ANNOUNCE_TAIL_LEN, b)) : b \in {0, 255}}
ScrapeRequests ==
    {ScrapeRequest(Bytes(INFO_HASH_LEN, 1)), ScrapeRequest(Bytes(2 * INFO_HASH_LEN, 2))}
RequestTypes ==
    {Connect} \cup {Announce(a) : a \in AnnounceRequests}
              \cup {Scrape(q) : q \in ScrapeRequests}
TrackerRequests ==
    {TrackerRequest(c, t, q) :
        c \in TrackerConnectionIds, t \in TrackerTransactionIds, q \in RequestTypes}

\* Datagrams handed to the parser: every header over the ids and action
\* words, followed by a body of each interesting length, and every proper
\* prefix of a header.
ActionWords ==
    {U32(n) : n \in 0..MaxAction} \cup {<<1, 0>>, <<0, 256>>, <<256, 1>>, <<65535, 65535>>}
Envelope(c, a, t) == write_words(c) \o write_words(a) \o write_words(t)
DatagramBodies ==
    {<<>>, Bytes(INFO_HASH_LEN, 1),
     Bytes(ANNOUNCE_HEAD_LEN + IPV4_LEN + ANNOUNCE_TAIL_LEN - 1, 0),
     Bytes(ANNOUNCE_HEAD_LEN + IPV4_LEN + ANNOUNCE_TAIL_LEN, 0),
     Bytes(ANNOUNCE_HEAD_LEN + IPV6_LEN + ANNOUNCE_TAIL_LEN, 0)}
Datagrams ==
    {Envelope(c, a, t) \o b :
        c \in TrackerConnectionIds, a \in ActionWords,
        t \in {U32(1), <<258, 772>>}, b \in DatagramBodies}
    \cup {SubSeq(Envelope(c, U32(n), <<258, 772>>), 1, k) :
            c \in TrackerConnectionIds, n \in 0..MaxAction, k \in 0..(HEADER_LEN - 1)}

NoRequest == TrackerRequest(<<0, 0, 0, 0>>, U32(0), Connect)
TrackerCalls ==
    [fn : {"write_bytes"}, req : TrackerRequests, bytes : {<<>>}]
    \cup [fn : {"from_bytes"}, req : {NoRequest}, bytes : Datagrams]

\* A write_bytes call starts from the request and its output is then
\* parsed; a from_bytes call starts from the datagram.
TrackerInit ==
    /\ DispIdle /\ TrkIdle /\ BldIdle
    /\ arg \in TrackerCalls
    /\ res = [stage |-> IF arg.fn = "write_bytes" THEN "request" ELSE "bytes",
              bytes |-> arg.bytes, r |-> IErr("pending")]

WriteBytes ==
    /\ res.stage = "request"
    /\ res' = [res EXCEPT !.stage = "bytes", !.bytes = write_bytes(arg.req)]
    /\ UNCHANGED <<arg, dispVars, bldVars, trkVars>>

FromBytes ==
    /\ res.stage = "bytes"
    /\ res' = [res EXCEPT !.stage = "parsed", !.r = parse_request(res.bytes)]
    /\ UNCHANGED <<arg, dispVars, bldVars, trkVars>>

TrackerNext ==
    \/ WriteBytes
    \/ FromBytes

SpecTracker == TrackerInit /\ [][TrackerNext]_vars

Written     == arg.fn = "write_bytes" /\ res.stage /= "request"
WrittenBack == arg.fn = "write_bytes" /\ res.stage = "parsed"
Parsed      == res.stage = "parsed"

\* The bytes on the wire, written out independently of the writer.
MagicBytes    == <<0, 0, 4, 23, 39, 16, 25, 128>>
ActionBytes(n) == <<0, 0, 0, n>>
TidBytes(t)   == <<t[1] \div 256, t[1] % 256, t[2] \div 256, t[2] % 256>>
WireConnectionId == SubSeq(res.bytes, 1, 8)
WireAction       == SubSeq(res.bytes, 9, 12)

\* C12: for every tracker request whose type is Connect, write_bytes emits
\* exactly the 16 bytes 00 00 04 17 27 10 19 80, 00 00 00 00 and the
\* big-endian transaction id, and parsing those bytes returns a Connect
\* request with that transaction id.
C12_ConnectBytes ==
    (Written /\ arg.req.request_type.kind = "Connect") =>
        /\ res.bytes = MagicBytes \o ActionBytes(0) \o TidBytes(arg.req.transaction_id)
        /\ Parsed => /\ res.r.ok
                     /\ res.r.v.request_type.kind = "Connect"
                     /\ res.r.v.transaction_id = arg.req.transaction_id

\* C13: for every TrackerRequest (any connection id, any transaction id,
\* type Connect, Announce or Scrape) parsing the bytes of write_bytes
\* succeeds with the same connection id, transaction id and request type.
C13_EnvelopeRoundTrip ==
    WrittenBack =>
        /\ res.r.ok
        /\ res.r.v.connection_id = arg.req.connection_id
        /\ res.r.v.transaction_id = arg.req.transaction_id
        /\ res.r.v.request_type.kind = arg.req.request_type.kind

\* A datagram with a malformed envelope: shorter than the header, an action
\* code outside {0, 1, 2, 4}, or action 0 without the protocol magic.
Malformed ==
    \/ Len(res.bytes) < 16
    \/ WireAction \notin {ActionBytes(0), ActionBytes(1), ActionBytes(2), ActionBytes(4)}
    \/ WireAction = ActionBytes(0) /\ WireConnectionId /= MagicBytes

\* C14: from_bytes returns an error and no request for every datagram whose
\* envelope is malformed.
C14_MalformedRejected ==
    (Parsed /\ Malformed) => (~res.r.ok /\ res.r.v = "none")

\* C14 witness: a full header with action 0 and a connection id other than
\* the magic was rejected by the match (not by a short read).
C14_Witness ==
    /\ Parsed /\ arg.fn = "from_bytes" /\ Len(res.bytes) >= 16
    /\ WireAction = ActionBytes(0) /\ WireConnectionId /= MagicBytes
    /\ ~res.r.ok /\ res.r.err = "Switch"

\* C15: an announce is written with action 1 when its source ip is IPv4 and
\* with action 4 when it is IPv6; the parser yields a v4 announce exactly
\* when the action is 1 and a v6 announce exactly when it is 4; so a written
\* announce is parsed with the family it was written with.
C15_AnnounceFamily ==
    /\ (Written /\ arg.req.request_type.kind = "Announce") =>
          WireAction = (IF arg.req.request_type.announce.source_ip.family = "v4"
                        THEN ActionBytes(1) ELSE ActionBytes(4))
    /\ (Parsed /\ res.r.ok) =>
          LET t == res.r.v.request_type IN
          /\ (WireAction = ActionBytes(1)) <=>
                (t.kind = "Announce" /\ t.announce.source_ip.family = "v4")
          /\ (WireAction = ActionBytes(4)) <=>
                (t.kind = "Announce" /\ t.announce.source_ip.family = "v6")
    /\ (WrittenBack /\ arg.req.request_type.kind = "Announce") =>
          /\ res.r.ok
          /\ res.r.v.request_type.announce.source_ip
                = arg.req.request_type.announce.source_ip

\* C15 witness: an IPv6 announce was written with action 4 and parsed back
\* as an IPv6 announce.
C15_Witness ==
    /\ WrittenBack /\ arg.req.request_type.kind = "Announce"
    /\ arg.req.request_type.announce.source_ip.family = "v6"
    /\ WireAction = ActionBytes(4)
    /\ res.r.ok /\ res.r.v.request_type.announce.source_ip.family = "v6"

(***************************************************************************)
(*      Peer-wire codec and nested protocols (peer/src/protocol)           *)
(***************************************************************************)

\* Framing: u32 length | u8 id | body; length 0 is a keepalive without id.
\* Message ids used here: 4 Have (u32 piece_index) and 20 Extension
\* (u8 sub_id | body); sub_id 0 is the extension handshake, whose body lists
\* the sub-ids its `m` dictionary defines.
MaxMessageLen == 16     \* the configured maximum of the length prefix
MaxFrames     == 3      \* frames on the connection

Frame(id, body) == write_u32(U32(1 + Len(body))) \o <<id>> \o body
KeepAliveFrame        == write_u32(U32(0))
HaveFrame(index)      == Frame(4, write_u32(U32(index)))
HandshakeFrame(ids)   == Frame(20, <<0>> \o ids)
ExtendedFrame(sub, b) == Frame(20, <<sub>> \o b)

NeedMore      == [kind |-> "None", n |-> 0]
Needed(n)     == [kind |-> "Some", n |-> n]
NeededTooMany == [kind |-> "Err",  n |-> 0]

\* The value of the length prefix, when it does not pass the maximum.
PrefixLength(bytes) ==
    LET w == be_words(bytes, 2) IN
    IF w[1] > 0 \/ w[2] > MaxMessageLen THEN MaxMessageLen + 1 ELSE w[2]

\* Mutant of bytes_needed: the length prefix itself is not counted.
bytes_needed_without_prefix(bytes) ==
    IF Len(bytes) < 4 THEN NeedMore
    ELSE IF PrefixLength(bytes) > MaxMessageLen THEN NeededTooMany
    ELSE Needed(PrefixLength(bytes))

\* PeerProtocol::bytes_needed: the total number of bytes of the first
\* message, None while the prefix is incomplete, an error past the maximum.
bytes_needed(bytes) ==
    IF Len(bytes) < 4 THEN NeedMore
    ELSE IF PrefixLength(bytes) > MaxMessageLen THEN NeededTooMany
    ELSE Needed(4 + PrefixLength(bytes))

Message(kind, sub, ids) == [kind |-> kind, sub |-> sub, ids |-> ids]

\* PeerProtocol::parse_bytes on the bytes of one frame, with the id table of
\* the nested protocol: Ok(message) or Err(protocol message error).
parse_bytes(bytes, table) ==
    IF Len(bytes) < 4 \/ Len(bytes) < 4 + PrefixLength(bytes)
    THEN Message("Incomplete", 0, {})
    ELSE LET length == PrefixLength(bytes)
             body   == SubSeq(bytes, 6, 4 + length)
         IN IF length = 0 THEN Message("KeepAlive", 0, {})
            ELSE IF bytes[5] = 4
            THEN IF length = 5 THEN Message("Have", 0, {})
                 ELSE Message("Invalid", 0, {})
            ELSE IF bytes[5] = 20 /\ length >= 2
            THEN IF body[1] = 0
                 THEN Message("Handshake", 0, {body[k] : k \in 2..Len(body)})
                 ELSE IF body[1] \in table
                 THEN Message("Extended", body[1], {})
                 ELSE Message("Unrecognized", body[1], {})
            ELSE Message("Invalid", 0, {})

\* Mutant of received_message: the nested protocol is not told.
received_message_dropped(table, message) == table

\* NestedPeerProtocol::received_message: the nested protocol records the
\* sub-ids of an extension handshake.
received_message(table, message) ==
    IF message.kind = "Handshake" THEN table \cup message.ids ELSE table
sent_message(table, message) ==
    IF message.kind = "Handshake" THEN table \cup message.ids ELSE table


\* ---- inputs ----
\* The frames a peer may send, among them one whose length prefix passes
\* the maximum; a stream is up to MaxFrames of them, one after the other.
PeerFrames ==
    {KeepAliveFrame, HaveFrame(7), HandshakeFrame(<<1>>), HandshakeFrame(<<2>>),
     ExtendedFrame(1, <<9>>), ExtendedFrame(2, <<9, 9>>),
     write_u32(U32(MaxMessageLen + 1))}
RECURSIVE PeerStreams(_)
PeerStreams(n) ==
    IF n = 0 THEN {<<>>}
    ELSE PeerStreams(n - 1)
         \cup {s \o f : s \in PeerStreams(n - 1), f \in PeerFrames}

NoMessageYet == [kind |-> "none", sub |-> 0, was_defined |-> FALSE]

\* A connection: the bytes received and not yet consumed, the id table of
\* the nested protocol, and what the last frame was parsed as. `defined`
\* records the sub-ids of the handshake frames consumed so far.
PeerInit ==
    /\ DispIdle /\ TrkIdle /\ BldIdle
    /\ arg \in [stream : PeerStreams(MaxFrames) \ {<<>>}]
    /\ res = [pos |-> 0, buf |-> <<>>, table |-> {}, defined |-> {},
              last |-> NoMessageYet, closed |-> FALSE,
              sent_table |-> {}, sent_defined |-> {}, sent |-> NoMessageYet]

\* One more byte of the stream arrives in the receive buffer.
ReceiveByte ==
    /\ ~res.closed /\ res.pos < Len(arg.stream)
    /\ res' = [res EXCEPT !.pos = res.pos + 1,
                          !.buf = Append(res.buf, arg.stream[res.pos + 1])]
    /\ UNCHANGED <<arg, dispVars, bldVars, trkVars>>

HandshakeIds(frame) ==
    IF Len(frame) >= 6 /\ frame[5] = 20 /\ frame[6] = 0
    THEN {frame[k] : k \in 7..Len(frame)} ELSE {}

\* The first frame of the buffer is parsed, shown to the nested protocol
\* and consumed; an unrecognized message ends the connection.
ParseFrame ==
    /\ ~res.closed
    /\ bytes_needed(res.buf).kind = "Some"
    /\ Len(res.buf) >= bytes_needed(res.buf).n
    /\ LET n       == bytes_needed(res.buf).n
           frame   == SubSeq(res.buf, 1, n)
           message == parse_bytes(frame, res.table)
       IN res' = [res EXCEPT
                    !.buf = Drop(res.buf, n),
                    !.table = received_message(res.table, message),
                    !.defined = res.defined \cup HandshakeIds(frame),
                    !.last = [kind |-> message.kind, sub |-> message.sub,
                              was_defined |-> message.sub \in res.defined],
                    !.closed = message.kind \in {"Unrecognized", "Incomplete"}]
    /\ UNCHANGED <<arg, dispVars, bldVars, trkVars>>

\* bytes_needed returned an error: the connection is dropped.
DropConnection ==
    /\ ~res.closed
    /\ bytes_needed(res.buf).kind = "Err"
    /\ res' = [res EXCEPT !.closed = TRUE,
                          !.last = [kind |-> "TooLong", sub |-> 0,
                                    was_defined |-> FALSE]]
    /\ UNCHANGED <<arg, dispVars, bldVars, trkVars>>

\* The frames this side sends: its own handshake and a message of the
\* extension the handshake announces.
SentFrames == {HandshakeFrame(<<1>>), ExtendedFrame(1, <<9>>)}

\* A frame is written and shown to the nested protocol before the next one
\* is taken from the outgoing queue.
SendFrame ==
    /\ ~res.closed
    /\ \E frame \in SentFrames :
          LET message == parse_bytes(frame, res.sent_table)
          IN res' = [res EXCEPT
                       !.sent_table = sent_message(res.sent_table, message),
                       !.sent_defined = res.sent_defined \cup HandshakeIds(frame),
                       !.sent = [kind |-> message.kind, sub |-> message.sub,
                                 was_defined |-> message.sub \in res.sent_defined]]
    /\ UNCHANGED <<arg, dispVars, bldVars, trkVars>>

PeerNext ==
    \/ ReceiveByte
    \/ ParseFrame
    \/ DropConnection
    \/ SendFrame

SpecPeer == PeerInit /\ [][PeerNext]_vars

\* C22: the extension handshake is shown to the nested protocol before the
\* next frame is consumed: at every frame boundary the id table of the
\* nested protocol holds every sub-id a consumed handshake defined, so a
\* frame with a sub-id defined by an earlier handshake is recognized.
C22_HandshakeSeenFirst ==
    /\ res.defined \subseteq res.table
    /\ res.sent_defined \subseteq res.sent_table
    /\ \A m \in {res.last, res.sent} :
          (m.kind \in {"Extended", "Unrecognized"} /\ m.was_defined)
             => m.kind = "Extended"

\* C22 witness: a message with sub-id 2 was recognized after a handshake
\* defining 2 had been consumed.
C22_Witness ==
    /\ res.last.kind = "Extended" /\ res.last.sub = 2 /\ res.last.was_defined
    /\ 2 \in res.table
    /\ res.sent.kind = "Extended" /\ res.sent.sub = 1 /\ res.sent.was_defined

\* bytes_needed answers from the length prefix alone, and a buffer that
\* holds the bytes it asks for parses as one whole message.
BytesNeededDetermined ==
    /\ bytes_needed(res.buf).kind = "None" <=> Len(res.buf) < 4
    /\ (bytes_needed(res.buf).kind = "Some"
            /\ Len(res.buf) >= bytes_needed(res.buf).n) =>
          parse_bytes(SubSeq(res.buf, 1, bytes_needed(res.buf).n),
                      res.table).kind /= "Incomplete"

\* C23: bytes_needed is monotone over a growing receive buffer: once it
\* returns Some(n) it returns the same Some(n) for every longer prefix
\* until the message is consumed; it returns None only while the prefix is
\* too short to determine n; a buffer of at least n bytes can be parsed.
C23_BytesNeededMonotone ==
    /\ []BytesNeededDetermined
    /\ [][(bytes_needed(res.buf).kind = "Some"
             /\ Len(res'.buf) = Len(res.buf) + 1)
          => bytes_needed(res'.buf) = bytes_needed(res.buf)]_vars

\* C23 witness: with one message already consumed, the buffer holds a whole
\* message and part of the next, and bytes_needed still gives the length of
\* the first.
C23_Witness ==
    /\ res.last.kind /= "none"
    /\ bytes_needed(res.buf).kind = "Some"
    /\ bytes_needed(res.buf).n = 9
    /\ Len(res.buf) > 9

(***************************************************************************)
(*        Metainfo builder: build (builder/mod.rs:268-288, 344-499)        *)
(***************************************************************************)

PIECE_LENGTH_KEY == "piece length"
PIECES_KEY       == "pieces"
NAME_KEY         == "name"
FILES_KEY        == "files"
LENGTH_KEY       == "length"
PATH_KEY         == "path"
INFO_KEY         == "info"

\* Accessor::access_directory: Option<&Path>, as a string.
NoDirectory     == [some |-> FALSE, s |-> ""]
Directory(name) == [some |-> TRUE, s |-> name]

\* worker::start_hasher_workers mapped through map_pieces_list: one hash
\* per piece, in piece order.
start_hasher_workers(total_num_pieces) == [k \in 1..total_num_pieces |-> "sha1"]

\* Lines 425-447 and 453-475: the `files` list of a multi file torrent.
bencode_files(files_info) ==
    ben_list([k \in DOMAIN files_info |->
        ben_map((LENGTH_KEY :> ben_int(files_info[k].len))
                @@ (PATH_KEY :> ben_list([c \in DOMAIN files_info[k].path |->
                                             ben_bytes(files_info[k].path[c])])))])

\* Lines 482-484: the path components pushed onto one string.
RECURSIVE single_file_name(_)
single_file_name(path) ==
    IF path = <<>> THEN "" ELSE Head(path) \o single_file_name(Tail(path))

RECURSIVE total_files_len(_)
total_files_len(files_info) ==
    IF files_info = <<>> THEN 0
    ELSE Head(files_info).len + total_files_len(Tail(files_info))

\* build_with_accessor reading the metadata before the threads assertion
\* and returning an error for an empty file list.
build_with_accessor_metadata_first(threads, accessor, opt_root, info_dict, piece_length) ==
    LET files_info == accessor.files
        total == total_files_len(files_info)
        pl == determine_piece_length(U64(0, total), piece_length)
        total_num_pieces == (total + pl - 1) \div pl
        pieces == start_hasher_workers(total_num_pieces)
        with_lengths ==
            dict_insert(dict_insert(info_dict, PIECE_LENGTH_KEY, ben_int(pl)).dict,
                        PIECES_KEY, ben_raw(pieces)).dict
        multi(name) ==
            dict_insert(dict_insert(with_lengths, NAME_KEY, ben_bytes(name)).dict,
                        FILES_KEY, bencode_files(files_info)).dict
        single ==
            dict_insert(dict_insert(with_lengths, LENGTH_KEY,
                                    ben_int(files_info[1].len)).dict,
                        NAME_KEY,
                        ben_bytes(single_file_name(files_info[1].path))).dict
        finish(final) ==
            IF opt_root.some
            THEN Ok(dict_insert(opt_root.v, INFO_KEY, ben_map(final)).dict)
            ELSE Ok(final)
    IN IF accessor.fails THEN Err("ParseError", "access_metadata")
       ELSE IF threads = 0 \/ pl = 0 THEN Abort
       ELSE IF accessor.directory.some THEN finish(multi(accessor.directory.s))
       ELSE IF Len(files_info) > 1 THEN finish(multi(""))
       ELSE IF files_info = <<>> THEN Err("ParseError", "no files")
       ELSE finish(single)

\* build_with_accessor choosing the multi file form by the file count alone.
build_with_accessor_by_count(threads, accessor, opt_root, info_dict, piece_length) ==
    LET files_info == accessor.files
        total == total_files_len(files_info)
        pl == determine_piece_length(U64(0, total), piece_length)
        total_num_pieces == (total + pl - 1) \div pl
        pieces == start_hasher_workers(total_num_pieces)
        with_lengths ==
            dict_insert(dict_insert(info_dict, PIECE_LENGTH_KEY, ben_int(pl)).dict,
                        PIECES_KEY, ben_raw(pieces)).dict
        multi(name) ==
            dict_insert(dict_insert(with_lengths, NAME_KEY, ben_bytes(name)).dict,
                        FILES_KEY, bencode_files(files_info)).dict
        single ==
            dict_insert(dict_insert(with_lengths, LENGTH_KEY,
                                    ben_int(files_info[1].len)).dict,
                        NAME_KEY,
                        ben_bytes(single_file_name(files_info[1].path))).dict
        finish(final) ==
            IF opt_root.some
            THEN Ok(dict_insert(opt_root.v, INFO_KEY, ben_map(final)).dict)
            ELSE Ok(final)
    IN IF threads = 0 THEN Abort
       ELSE IF accessor.fails THEN Err("ParseError", "access_metadata")
       ELSE IF pl = 0 THEN Abort
       ELSE IF Len(files_info) > 1 THEN finish(multi(accessor.directory.s))
       ELSE IF files_info = <<>> THEN Abort
       ELSE finish(single)

\* build_with_accessor. The value is the dictionary that is encoded: the
\* info dictionary, or the root with the info dictionary under `info`.
\* threads = 0 fails the assertion of line 374; an error of access_metadata
\* is returned (line 382); a piece length of 0 makes total_num_pieces
\* infinite or NaN and fails the assertion of line 391; the single file
\* branch indexes files_info[0].
build_with_accessor(threads, accessor, opt_root, info_dict, piece_length) ==
    LET files_info == accessor.files
        total == total_files_len(files_info)
        pl == determine_piece_length(U64(0, total), piece_length)
        total_num_pieces == (total + pl - 1) \div pl
        pieces == start_hasher_workers(total_num_pieces)
        with_lengths ==
            dict_insert(dict_insert(info_dict, PIECE_LENGTH_KEY, ben_int(pl)).dict,
                        PIECES_KEY, ben_raw(pieces)).dict
        multi(name) ==
            dict_insert(dict_insert(with_lengths, NAME_KEY, ben_bytes(name)).dict,
                        FILES_KEY, bencode_files(files_info)).dict
        single ==
            dict_insert(dict_insert(with_lengths, LENGTH_KEY,
                                    ben_int(files_info[1].len)).dict,
                        NAME_KEY,
                        ben_bytes(single_file_name(files_info[1].path))).dict
        finish(final) ==
            IF opt_root.some
            THEN Ok(dict_insert(opt_root.v, INFO_KEY, ben_map(final)).dict)
            ELSE Ok(final)
    IN IF threads = 0 THEN Abort
       ELSE IF accessor.fails THEN Err("ParseError", "access_metadata")
       ELSE IF pl = 0 THEN Abort
       ELSE IF accessor.directory.some THEN finish(multi(accessor.directory.s))
       ELSE IF Len(files_info) > 1 THEN finish(multi(""))
       ELSE IF files_info = <<>> THEN Abort
       ELSE finish(single)

\* ---- inputs ----
MaxFiles == 2

AccessFiles ==
    {[len |-> 0, path |-> <<"a">>], [len |-> 3, path |-> <<"sub", "b">>],
     [len |-> 5, path |-> <<"c">>]}
RECURSIVE FileLists(_)
FileLists(n) ==
    IF n = 0 THEN {<<>>}
    ELSE FileLists(n - 1) \cup {Append(l, f) : l \in FileLists(n - 1), f \in AccessFiles}

\* The accessors into_accessor yields; `fails` is an accessor whose
\* access_metadata returns an error.
Accessors ==
    [directory : {NoDirectory, Directory("dir")}, files : FileLists(MaxFiles),
     fails : BOOLEAN]

BuildPieceLengths ==
    {[kind |-> "OptBalanced", len |-> 0], [kind |-> "Custom", len |-> 2],
     [kind |-> "Custom", len |-> 0]}

\* A builder as its setters leave it, and the arguments of one build call;
\* with_root tells MetainfoBuilder::build from InfoBuilder::build.
BuildInit ==
    /\ DispIdle /\ TrkIdle
    /\ root \in {new_dict, set_comment(new_dict, Some(ben_bytes("a comment")))}
    /\ info \in {new_dict, dict_insert(new_dict, PRIVATE_KEY, ben_int(1)).dict}
    /\ calls = "none"
    /\ arg \in [threads : {0, 1}, accessor : Accessors,
                piece_length : BuildPieceLengths, with_root : BOOLEAN]
    /\ res = [done |-> FALSE, r |-> Abort]

\* MetainfoBuilder::build (lines 273-288) and InfoBuilder::build (349-357).
Build ==
    /\ ~res.done
    /\ res' = [done |-> TRUE,
               r |-> build_with_accessor(arg.threads, arg.accessor,
                        IF arg.with_root THEN Some(root) ELSE None,
                        info, arg.piece_length)]
    /\ UNCHANGED <<arg, root, info, calls, dispVars, trkVars>>

BuildNext == Build

SpecBuild == BuildInit /\ [][BuildNext]_vars

\* The info dictionary of a finished build.
BuiltInfo == IF arg.with_root THEN res.r.v[INFO_KEY].l ELSE res.r.v

MultiFile == arg.accessor.directory.some \/ Len(arg.accessor.files) > 1

\* The name of the only file: its path components, joined.
OnlyFileName ==
    LET path == arg.accessor.files[1].path
    IN IF Len(path) = 1 THEN path[1] ELSE path[1] \o path[2]

C39_WitnessThreads ==
    res.done /\ res.r.panic /\ arg.threads = 0 /\ arg.accessor.fails

(***************************************************************************)
(*      Peer wire messages (bip_peer/src/message/standard.rs)              *)
(***************************************************************************)

\* u32 values are big-endian pairs of 16-bit words, as above; the byte count
\* of a bitfield is below 2^30 and is a plain integer. u32_to_usize widens
\* and keeps the value.
BITS_PER_BYTE == 8

\* vec![0u8; n]: n bytes of one value.
Filled(n, byte) == [len |-> n, fill |-> byte]

\* BitFieldMessage::new computing (total_pieces + 7) / 8 in u32 arithmetic.
BitFieldMessage_new_add_seven(total_pieces) ==
    LET low  == total_pieces[2] + (BITS_PER_BYTE - 1)
        high == (total_pieces[1] + (low \div U16_MODULUS)) % U16_MODULUS
    IN Filled(high * (U16_MODULUS \div BITS_PER_BYTE)
                 + ((low % U16_MODULUS) \div BITS_PER_BYTE), 0)

\* BitFieldMessage::new. total_pieces % 8 and total_pieces / 8 from the
\* words: 2^16 is a multiple of 8.
BitFieldMessage_new(total_pieces) ==
    LET remainder == total_pieces[2] % BITS_PER_BYTE
        quotient  == total_pieces[1] * (U16_MODULUS \div BITS_PER_BYTE)
                        + (total_pieces[2] \div BITS_PER_BYTE)
        needed == IF remainder = 0 THEN quotient ELSE quotient + 1
    IN Filled(needed, 0)

RequestMessage(piece_index, block_offset, block_length) ==
    [type |-> "Request", piece_index |-> piece_index,
     block_offset |-> block_offset, block_length |-> block_length]
CancelMessage(piece_index, block_offset, block_length) ==
    [type |-> "Cancel", piece_index |-> piece_index,
     block_offset |-> block_offset, block_length |-> block_length]

\* tuple!(be_u32, be_u32, be_u32)
tuple_be_u32_3(bytes) ==
    LET index == be_u32(bytes) IN
    IF ~index.ok THEN index ELSE
    LET offset == be_u32(index.rest) IN
    IF ~offset.ok THEN offset ELSE
    LET length == be_u32(offset.rest) IN
    IF ~length.ok THEN length ELSE
    IOk(length.rest, <<index.v, offset.v, length.v>>)

\* RequestMessage::from_bytes (parse_request).
RequestMessage_from_bytes(bytes) ==
    LET t == tuple_be_u32_3(bytes)
    IN IF ~t.ok THEN t ELSE IOk(t.rest, RequestMessage(t.v[1], t.v[2], t.v[3]))

\* parse_cancel reading the block length before the block offset.
CancelMessage_from_bytes_length_first(bytes) ==
    LET t == tuple_be_u32_3(bytes)
    IN IF ~t.ok THEN t ELSE IOk(t.rest, CancelMessage(t.v[1], t.v[3], t.v[2]))

\* CancelMessage::from_bytes (parse_cancel).
CancelMessage_from_bytes(bytes) ==
    LET t == tuple_be_u32_3(bytes)
    IN IF ~t.ok THEN t ELSE IOk(t.rest, CancelMessage(t.v[1], t.v[2], t.v[3]))

PieceMessage(piece_index, block_offset, block_length) ==
    [type |-> "Piece", piece_index |-> piece_index,
     block_offset |-> block_offset, block_length |-> block_length]

\* PieceMessage::from_bytes taking the len block bytes as well.
PieceMessage_from_bytes_with_block(bytes, len) ==
    LET index == be_u32(bytes) IN
    IF ~index.ok THEN index ELSE
    LET offset == be_u32(index.rest) IN
    IF ~offset.ok THEN offset ELSE
    IF len[1] > 0 \/ len[2] > Len(offset.rest) THEN IErr("Eof")
    ELSE IOk(Drop(offset.rest, len[2]), PieceMessage(index.v, offset.v, len))

\* PieceMessage::from_bytes (parse_piece): be_u32 ~ be_u32 ~ value!(len).
PieceMessage_from_bytes(bytes, len) ==
    LET index == be_u32(bytes) IN
    IF ~index.ok THEN index ELSE
    LET offset == be_u32(index.rest) IN
    IF ~offset.ok THEN offset ELSE
    IOk(offset.rest, PieceMessage(index.v, offset.v, len))

\* ---- inputs ----
\* Piece counts around the multiples of 8, at both ends of the u32 range and
\* around the 16-bit carries.
MaxRemainder == 9
TotalPieces ==
    {<<high, low>> : high \in {0, 1, U16_MODULUS \div 2, U16_MODULUS - 1},
                     low \in 0..MaxRemainder
                             \cup (U16_MODULUS - 1 - MaxRemainder)..(U16_MODULUS - 1)}

\* Message bodies: three u32 fields and up to MaxExtra bytes more, and every
\* prefix of such a body.
MaxExtra == 2
FieldBytes == {<<0, 0, 0, 0>>, <<0, 0, 1, 2>>, <<255, 255, 255, 255>>, <<1, 2, 3, 4>>}
FullBodies ==
    {a \o b \o c \o [k \in 1..n |-> 9] :
        a \in FieldBytes, b \in FieldBytes, c \in FieldBytes, n \in 0..MaxExtra}
Bodies == UNION {{SubSeq(body, 1, n) : n \in 0..Len(body)} : body \in FullBodies}

\* The len argument of PieceMessage::from_bytes: no block, a block of 3
\* bytes, and the largest u32.
BlockLengths == {<<0, 0>>, <<0, 3>>, <<U16_MODULUS - 1, U16_MODULUS - 1>>}

NotRun == [done |-> FALSE, r |-> IErr("none")]

MessageInit ==
    /\ DispIdle /\ TrkIdle /\ BldIdle
    /\ arg \in [total_pieces : TotalPieces, bytes : {<<>>}, len : {<<0, 0>>}]
               \cup [total_pieces : {<<0, 0>>}, bytes : Bodies, len : BlockLengths]
    /\ res = [bitfield |-> [done |-> FALSE, bytes |-> Filled(0, 0)],
              request |-> NotRun, cancel |-> NotRun, piece |-> NotRun]

BitFieldNew ==
    /\ ~res.bitfield.done
    /\ res' = [res EXCEPT !.bitfield =
                  [done |-> TRUE, bytes |-> BitFieldMessage_new(arg.total_pieces)]]
    /\ UNCHANGED <<arg, dispVars, bldVars, trkVars>>

RequestFromBytes ==
    /\ ~res.request.done
    /\ res' = [res EXCEPT !.request = [done |-> TRUE, r |-> RequestMessage_from_bytes(arg.bytes)]]
    /\ UNCHANGED <<arg, dispVars, bldVars, trkVars>>

CancelFromBytes ==
    /\ ~res.cancel.done
    /\ res' = [res EXCEPT !.cancel = [done |-> TRUE, r |-> CancelMessage_from_bytes(arg.bytes)]]
    /\ UNCHANGED <<arg, dispVars, bldVars, trkVars>>

PieceFromBytes ==
    /\ ~res.piece.done
    /\ res' = [res EXCEPT !.piece =
                  [done |-> TRUE, r |-> PieceMessage_from_bytes(arg.bytes, arg.len)]]
    /\ UNCHANGED <<arg, dispVars, bldVars, trkVars>>

MessageNext ==
    \/ BitFieldNew
    \/ RequestFromBytes
    \/ CancelFromBytes
    \/ PieceFromBytes

SpecMessage == MessageInit /\ [][MessageNext]_vars

\* C29: BitFieldMessage::new(total_pieces) makes a bitfield of exactly
\* ceil(total_pieces / 8) bytes, all zero, for every u32 total_pieces, 0 and
\* 2^32 - 1 included: with the byte count n = a * 2^13 + b, 8 * n is
\* a * 2^16 + 8 * b, and 8 * n - total_pieces lies in 0..7.
C29_BitFieldLength ==
    res.bitfield.done =>
        LET n == res.bitfield.bytes.len
            a == n \div (U16_MODULUS \div 8)
            b == n % (U16_MODULUS \div 8)
        IN /\ res.bitfield.bytes.fill = 0
           /\ a - arg.total_pieces[1] \in {0, 1}
           /\ (a - arg.total_pieces[1]) * U16_MODULUS + 8 * b - arg.total_pieces[2]
                 \in 0..7

\* C29 witness: the bitfield for 2^32 - 1 pieces has 2^29 bytes.
C29_Witness ==
    /\ res.bitfield.done
    /\ arg.total_pieces = <<U16_MODULUS - 1, U16_MODULUS - 1>>
    /\ res.bitfield.bytes.len = 512 * 1024 * 1024

\* The u32 at bytes k .. k + 3, most significant byte first.
BigEndianAt(bytes, k) ==
    <<bytes[k] * 256 + bytes[k + 1], bytes[k + 2] * 256 + bytes[k + 3]>>

\* C30: Request and Cancel bodies are parsed alike: from at least 12 bytes
\* both from_bytes consume exactly 12 bytes and give piece_index,
\* block_offset and block_length as the three consecutive big-endian u32
\* values in that order; from fewer bytes neither gives a message.
C30_RequestCancelAlike ==
    \A f \in {"request", "cancel"} :
        LET m == res[f] IN
        m.done =>
            IF Len(arg.bytes) >= 12
            THEN /\ m.r.ok
                 /\ m.r.rest = SubSeq(arg.bytes, 13, Len(arg.bytes))
                 /\ m.r.v.piece_index = BigEndianAt(arg.bytes, 1)
                 /\ m.r.v.block_offset = BigEndianAt(arg.bytes, 5)
                 /\ m.r.v.block_length = BigEndianAt(arg.bytes, 9)
            ELSE ~m.r.ok

\* C30 witness: a body with three different fields and a byte to spare was
\* parsed both as a Request and as a Cancel.
C30_Witness ==
    /\ res.request.done /\ res.cancel.done
    /\ res.request.r.ok /\ res.cancel.r.ok
    /\ Len(arg.bytes) = 13
    /\ res.cancel.r.v.block_offset = <<258, 772>>
    /\ res.cancel.r.v.block_length = <<65535, 65535>>
    /\ res.request.r.v.piece_index = <<0, 258>>

\* C30 witness: an 11 byte body gave neither message.
C30_WitnessShort ==
    /\ res.request.done /\ res.cancel.done /\ Len(arg.bytes) = 11
    /\ ~res.request.r.ok /\ ~res.cancel.r.ok

\* C33: PieceMessage::from_bytes(bytes, len) reads piece_index and
\* block_offset as big-endian u32 from the first 8 bytes, consumes exactly
\* those 8 bytes, so that the block stays in the remaining input, and gives
\* block_length = len whether or not len bytes of block data are there.
C33_PieceHeaderOnly ==
    (res.piece.done /\ Len(arg.bytes) >= 8) =>
        /\ res.piece.r.ok
        /\ res.piece.r.rest = SubSeq(arg.bytes, 9, Len(arg.bytes))
        /\ res.piece.r.v.piece_index = BigEndianAt(arg.bytes, 1)
        /\ res.piece.r.v.block_offset = BigEndianAt(arg.bytes, 5)
        /\ res.piece.r.v.block_length = arg.len

\* C33 witness: a Piece with a block length of 3 was parsed from a body
\* that holds 2 block bytes, which remain.
C33_Witness ==
    /\ res.piece.done /\ res.piece.r.ok
    /\ Len(arg.bytes) = 10 /\ arg.len = <<0, 3>>
    /\ Len(res.piece.r.rest) = 2
    /\ res.piece.r.v.block_length = <<0, 3>>

(***************************************************************************)
(*        Tracker announce: server registry and handshaker stream          *)
(*        (packages/utracker/tests/test_announce_stop.rs)                  *)
(***************************************************************************)

MaxRequests == 3

TrackerClients == {"c1", "c2"}
AnnounceInfoHashes == {"h1", "h2"}
\* AnnounceEvent: the two events the clients announce with.
AnnounceEventKinds == {"Started", "Stopped"}

\* ClientRequest::Announce(info_hash, ClientState::new(0, 0, 0, event)),
\* with the token client.request returns and the address it is sent from.
ClientRequestAnnounce(token, client, hash, event) ==
    [token |-> token, client |-> client, hash |-> hash, event |-> event]

\* The peers of a swarm in the order the response carries them.
RECURSIVE PeerList(_)
PeerList(set) ==
    IF set = {} THEN <<>>
    ELSE LET p == CHOOSE x \in set : TRUE IN <<p>> \o PeerList(set \ {p})

\* Mutant of MockTrackerHandler_announce: Stopped is treated like any event.
MockTrackerHandler_announce_keep(sw, req) ==
    [sw EXCEPT ![req.hash] = @ \cup {req.client}]

\* MockTrackerHandler: an announce registers the sender for the info hash,
\* a Stopped announce takes it out.
MockTrackerHandler_announce(sw, req) ==
    [sw EXCEPT ![req.hash] = IF req.event = "Stopped"
                             THEN @ \ {req.client}
                             ELSE @ \cup {req.client}]

\* The announce response for a request, from the registry after the update:
\* the mock handler reports the size of the swarm as leechers and as seeders.
AnnounceResponse(sw, req) ==
    [token |-> req.token, client |-> req.client, hash |-> req.hash,
     leechers |-> Cardinality(sw[req.hash]),
     seeders |-> Cardinality(sw[req.hash]),
     peers |-> PeerList(sw[req.hash])]

InitiateMessage(peer, hash) ==
    [kind |-> "InitiateMessage", peer |-> peer, hash |-> hash]

\* ClientMetadata(token, result): result is the response or an error.
ClientMetadata(token, ok, response) ==
    [kind |-> "ClientMetadata", token |-> token, ok |-> ok,
     response |-> response]

\* Mutant of HandshakerMessages: the metadata is sent ahead of the peers.
HandshakerMessages_metadata_first(resp) ==
    <<ClientMetadata(resp.token, TRUE, resp)>>
    \o [i \in 1..Len(resp.peers) |-> InitiateMessage(resp.peers[i], resp.hash)]

\* What the client sends down the handshaker sink for an announce response.
HandshakerMessages(resp) ==
    [i \in 1..Len(resp.peers) |-> InitiateMessage(resp.peers[i], resp.hash)]
    \o <<ClientMetadata(resp.token, TRUE, resp)>>

\* The request with this token has had its ClientMetadata.
MetadataDelivered(client, token) ==
    \E i \in 1..Len(stream[client]) :
        /\ stream[client][i].kind = "ClientMetadata"
        /\ stream[client][i].token = token

AnnounceInit ==
    /\ DispIdle /\ FnIdle /\ BldIdle
    /\ swarm = [h \in AnnounceInfoHashes |-> {}]
    /\ requests = <<>> /\ responses = <<>>
    /\ stream = [c \in TrackerClients |-> <<>>]
    /\ issued = <<>> /\ handled = <<>>

\* TrackerClient::request.
ClientRequest(client, hash, event) ==
    /\ Len(issued) < MaxRequests
    /\ LET req == ClientRequestAnnounce(Len(issued) + 1, client, hash, event)
       IN /\ issued' = Append(issued, req)
          /\ requests' = Append(requests, req)
    /\ UNCHANGED <<swarm, responses, stream, handled>>

\* TrackerServer: the handler runs on the next request and the response is
\* sent back.
ServerAnnounce ==
    /\ requests /= <<>>
    /\ LET req == Head(requests)
           sw == MockTrackerHandler_announce(swarm, req)
       IN /\ swarm' = sw
          /\ responses' = Append(responses, AnnounceResponse(sw, req))
          /\ handled' = Append(handled, req)
    /\ requests' = Tail(requests)
    /\ UNCHANGED <<stream, issued>>

\* TrackerClient: a response arrives; one for a request that has timed out
\* is dropped.
ClientResponse ==
    /\ responses /= <<>>
    /\ LET resp == Head(responses)
       IN stream' = IF MetadataDelivered(resp.client, resp.token) THEN stream
                    ELSE [stream EXCEPT ![resp.client] =
                              @ \o HandshakerMessages(resp)]
    /\ responses' = Tail(responses)
    /\ UNCHANGED <<swarm, requests, issued, handled>>

\* TrackerClient: a request times out and the failure is reported.
ClientTimeout(token) ==
    /\ token \in 1..Len(issued)
    /\ ~MetadataDelivered(issued[token].client, token)
    /\ stream' = [stream EXCEPT ![issued[token].client] =
                      Append(@, ClientMetadata(token, FALSE, "timeout"))]
    /\ UNCHANGED <<swarm, requests, responses, issued, handled>>

AnnounceNext ==
    \/ /\ \E c \in TrackerClients : \E h \in AnnounceInfoHashes :
              \E e \in AnnounceEventKinds : ClientRequest(c, h, e)
       /\ UNCHANGED <<dispVars, fnVars, bldVars>>
    \/ ServerAnnounce /\ UNCHANGED <<dispVars, fnVars, bldVars>>
    \/ ClientResponse /\ UNCHANGED <<dispVars, fnVars, bldVars>>
    \/ /\ \E t \in 1..MaxRequests : ClientTimeout(t)
       /\ UNCHANGED <<dispVars, fnVars, bldVars>>

SpecAnnounce == AnnounceInit /\ [][AnnounceNext]_vars

\* The position of the last announce the server handled from this client
\* for this info hash (0 if there is none).
LatestAnnounce(client, hash) ==
    LET S == {i \in 1..Len(handled) :
                 handled[i].client = client /\ handled[i].hash = hash}
    IN IF S = {} THEN 0 ELSE CHOOSE i \in S : \A j \in S : j <= i

\* The responses a client has been given, as (request, response) pairs.
AnnounceResults(client) ==
    {<<issued[stream[client][i].token], stream[client][i].response>> :
        i \in {j \in 1..Len(stream[client]) :
                  /\ stream[client][j].kind = "ClientMetadata"
                  /\ stream[client][j].ok}}

\* Only this client has made requests for the info hash.
OnlyAnnouncer(client, hash) ==
    \A i \in 1..Len(issued) : issued[i].hash = hash => issued[i].client = client

PeersAnnounced(m) == IF m.ok THEN Len(m.response.peers) ELSE 0

InFlight(token) ==
    \/ \E i \in 1..Len(requests) : requests[i].token = token
    \/ \E i \in 1..Len(responses) : responses[i].token = token

C32_WitnessTimeout ==
    \E t \in 1..Len(issued) :
        /\ ~InFlight(t)
        /\ \E i \in 1..Len(handled) : handled[i].token = t
        /\ \E i \in 1..Len(stream[issued[t].client]) :
              /\ stream[issued[t].client][i].kind = "ClientMetadata"
              /\ stream[issued[t].client][i].token = t
              /\ ~stream[issued[t].client][i].ok

(***************************************************************************)
(*                 Claims about the UDP dispatcher                         *)
(***************************************************************************)

PoolBuffers  == {buffer_pool[i] : i \in 1..Len(buffer_pool)}
QueueBuffers == {out_queue[i].buf : i \in 1..Len(out_queue)}

\* The step just taken was a `ready` call for the UDP socket.
UdpReadyStep == last'.kind = "ready" /\ last'.token = UDP_SOCKET_TOKEN /\ pc = "idle"

\* C1: every buffer the pool has created is in exactly one of the pool, the
\* outbound queue, or the hands of the single running callback; none is
\* dropped by an event handler and none is in two places.
C1_BuffersConserved ==
    ~panicked =>
        /\ Cardinality(borrowed) <= 1
        /\ PoolBuffers \cup QueueBuffers \cup borrowed = 1..allocated
        /\ Len(buffer_pool) + Len(out_queue) + Cardinality(borrowed) = allocated

\* C2: a write-ready event with a non-empty queue hands the head datagram to
\* the socket once and returns its buffer to the pool, whether send_to
\* succeeded or failed with an I/O error, and never panics.
C2_WriteReturnsBuffer ==
    [][(UdpReadyStep /\ last'.send \in {"ok", "err"}) =>
         /\ wire' = Append(wire, Head(out_queue).dg)
         /\ \E i \in 1..Len(buffer_pool') : buffer_pool'[i] = Head(out_queue).buf
         /\ ~panicked']_vars

\* C3: when send_to reports that it would block, the datagram stays at the
\* head of the outbound queue, which is left as it was.
C3_WouldBlockKeepsHead ==
    [][(UdpReadyStep /\ last'.send = "wouldblock") => out_queue' = out_queue]_vars

\* C4: a read-ready event (nothing written) on which recv_from yields no
\* datagram or an error enters no callback and leaves the buffer pool and
\* the outbound queue as they were.
C4_EmptyReadIsNoOp ==
    [][(UdpReadyStep /\ last'.send = "none" /\ last'.recv \in {"nothing", "err"}) =>
         /\ pc' = "idle"
         /\ buffer_pool' = buffer_pool
         /\ out_queue' = out_queue]_vars

\* C5: datagrams are handed to the socket in the order they were enqueued:
\* the numbers in `wire` increase, and everything still queued was enqueued
\* after everything already attempted and is itself in enqueue order.
C5_FifoOrder ==
    /\ \A i, j \in 1..Len(wire) : i < j => wire[i] < wire[j]
    /\ \A i, j \in 1..Len(out_queue) : i < j => out_queue[i].dg < out_queue[j].dg
    /\ \A i \in 1..Len(wire) : \A j \in 1..Len(out_queue) : wire[i] < out_queue[j].dg

\* C5 witness: two datagrams were attempted while a later one is queued.
C5_Witness == Len(wire) >= 2 /\ out_queue /= <<>> /\ ~panicked

\* C6: right after a tick the socket is registered as readable when the
\* outbound queue is empty and as readable + writable otherwise; readable
\* is registered at all times.
C6_TickSubscription ==
    /\ "readable" \in current_set
    /\ last.kind = "tick" =>
         current_set = (IF Len(out_queue) = 0 THEN {"readable"}
                        ELSE {"readable", "writable"})

\* C6 witness: a tick found datagrams queued and subscribed writable.
C6_Witness ==
    last.kind = "tick" /\ out_queue /= <<>> /\ current_set = {"readable", "writable"}

Attempted(d) == \E i \in 1..Len(wire) : wire[i] = d

SpuriousReadyStep ==
    /\ last'.kind = "ready" /\ pc = "idle"
    /\ \/ last'.token /= UDP_SOCKET_TOKEN
       \/ last'.events = Writable /\ out_queue = <<>>

\* C36: a ready event whose token is not the UDP socket's, and a write-ready
\* event that finds the outbound queue empty, enter no callback and leave
\* the buffer pool and the outbound queue as they were.
C36_SpuriousEventsNoOp ==
    [][SpuriousReadyStep =>
         /\ pc' = "idle" /\ borrowed' = {} /\ enqueued' = enqueued
         /\ buffer_pool' = buffer_pool /\ allocated' = allocated
         /\ out_queue' = out_queue /\ wire' = wire /\ ~panicked']_vars

\* C36 witness: a write-ready event arrived after the queue had been drained
\* (the writable interest is still registered until the next tick).
C36_Witness ==
    /\ last.kind = "ready" /\ last.token = UDP_SOCKET_TOKEN
    /\ last.events = Writable /\ last.send = "none" /\ wire /= <<>>

\* C36 witness: an event for another token arrived while datagrams were
\* queued and buffers pooled.
C36_WitnessToken ==
    /\ last.kind = "ready" /\ last.token /= UDP_SOCKET_TOKEN
    /\ "writable" \in last.events /\ "readable" \in last.events
    /\ out_queue /= <<>> /\ buffer_pool /= <<>>

Queued(d) == \E i \in 1..Len(out_queue) : out_queue[i].dg = d

\* A ready event for the UDP socket flagged both writable and readable.
BothReadyStep == UdpReadyStep /\ last'.events = Readable \cup Writable

\* The incoming callback of a ready event runs and returns.
IncomingStep == pc = "incoming" /\ pc' = "idle"

\* C35: in a ready event flagged writable and readable the write happens
\* before the incoming callback is entered and takes at most one datagram
\* from the queue; what the callback enqueues is not sent by the callback
\* and stays queued until a ready event flagged writable for the socket,
\* and only tick changes the registered interest.
C35_WriteBeforeIncoming ==
    /\ [][BothReadyStep =>
            /\ enqueued' = enqueued
            /\ Len(out_queue') >= Len(out_queue) - 1
            /\ Len(wire') <= Len(wire) + 1
            /\ out_queue /= <<>> =>
                  /\ wire' = Append(wire, Head(out_queue).dg)
                  /\ out_queue' = Tail(out_queue)]_vars
    /\ [][IncomingStep =>
            /\ wire' = wire
            /\ \A d \in (enqueued + 1)..enqueued' :
                  \E i \in 1..Len(out_queue') : out_queue'[i].dg = d]_vars
    /\ [](\A d \in 1..enqueued : Queued(d) /= Attempted(d))
    /\ [][wire' /= wire =>
            /\ last'.kind = "ready" /\ last'.token = UDP_SOCKET_TOKEN
            /\ "writable" \in last'.events]_vars
    /\ [][current_set' /= current_set => last'.kind = "tick"]_vars

\* C35 witness: one event sent the head of the queue and then ran the
\* callback, whose datagram is queued and not sent.
C35_Witness ==
    /\ last.kind = "incoming" /\ last.events = Readable \cup Writable
    /\ last.send = "ok" /\ last.sends /= <<>> /\ wire /= <<>>
    /\ Queued(enqueued) /\ ~Attempted(enqueued)

====
